---- MODULE Spec2Model ----
(***************************************************************************)
(* A model of the Multi-Domain Edge Manager (python-nginx-dashboard):      *)
(* the configuration store with its DNS record archive, the Propagator     *)
(* (propagate_changes), the Cloudflare DNS reconciler, the Origin-CA and   *)
(* ACME certificate managers, the nginx generator and the publish job.     *)
(*                                                                         *)
(* Python exceptions are modelled as an "err" field of an operator's       *)
(* result: "" means the call returned, anything else names the exception   *)
(* that left it.  Every repository operation commits, so the rows written  *)
(* before an exception stay written.                                       *)
(***************************************************************************)
EXTENDS Integers, Sequences, FiniteSets, TLC

(***************************************************************************)
(* Bounds of the model.                                                    *)
(***************************************************************************)
MaxRecs    == 2   \* DnsRecord rows in the persisted store at start
MaxRemote  == 2   \* records in the provider zone at start
MaxArchive == 2   \* archive rows a user operation may still add to
MaxFailAt  == 1   \* the provider may fail the k-th mutating call, k <= MaxFailAt

(***************************************************************************)
(* The schema, app/persistence/models.py.                                  *)
(***************************************************************************)
ManagedBy == {"SYSTEM", "USER", "IMPORTED"}

\* Domain has exactly these mapped attributes.
DomainColumns == {"id", "name", "auto_wildcard", "use_for_direct_prefix"}

\* DnsRecordArchive has exactly these mapped attributes: there is no proxied.
DnsRecordArchiveColumns == {"id", "domain_id", "name", "type", "content", "managed_by"}

\* DnsRecordArchive.from_dns_record: the archive row of a record.
from_dns_record(rec) ==
    [domain |-> rec.domain, name |-> rec.name, type |-> rec.type,
     content |-> rec.content, managed_by |-> rec.managed_by]

\* UniqueConstraint uq_dns_key: the key no two DnsRecord rows share.
uq_dns_key(rec) == <<rec.domain, rec.name, rec.type, rec.content>>

(***************************************************************************)
(* Sequence helpers.                                                       *)
(***************************************************************************)
RECURSIVE SetToSeq(_)
SetToSeq(S) ==
    IF S = {} THEN <<>>
    ELSE LET x == CHOOSE y \in S : TRUE IN <<x>> \o SetToSeq(S \ {x})

Range(s) == {s[i] : i \in 1..Len(s)}

RECURSIVE SeqFilterOut(_, _)
\* the sequence s without its first element equal to x
SeqFilterOut(s, x) ==
    IF s = <<>> THEN <<>>
    ELSE IF Head(s) = x THEN Tail(s)
    ELSE <<Head(s)>> \o SeqFilterOut(Tail(s), x)

\* str.endswith
EndsWith(s, suffix) ==
    /\ Len(s) >= Len(suffix)
    /\ SubSeq(s, Len(s) - Len(suffix) + 1, Len(s)) = suffix

\* str.startswith
StartsWith(s, prefix) ==
    /\ Len(s) >= Len(prefix)
    /\ SubSeq(s, 1, Len(prefix)) = prefix


\* int(s.lstrip('/')): the number, or -1 where int() raises ValueError
Digits == <<"0", "1", "2", "3", "4", "5", "6", "7", "8", "9">>

RECURSIVE lstrip_slash(_)
lstrip_slash(s) ==
    IF Len(s) > 0 /\ SubSeq(s, 1, 1) = "/" THEN lstrip_slash(SubSeq(s, 2, Len(s))) ELSE s

RECURSIVE int_of(_, _)
int_of(s, acc) ==
    IF Len(s) = 0 THEN acc
    ELSE LET c == SubSeq(s, 1, 1) IN
         IF \E d \in 1..10 : Digits[d] = c
         THEN int_of(SubSeq(s, 2, Len(s)), 10 * acc + ((CHOOSE d \in 1..10 : Digits[d] = c) - 1))
         ELSE -1

stream_port(path_prefix) ==
    LET p == lstrip_slash(path_prefix) IN IF Len(p) = 0 THEN -1 ELSE int_of(p, 0)

RECURSIVE count_dots(_)
\* str.count(".")
count_dots(s) ==
    IF Len(s) = 0 THEN 0
    ELSE (IF SubSeq(s, 1, 1) = "." THEN 1 ELSE 0) + count_dots(SubSeq(s, 2, Len(s)))

RECURSIVE after_first_dot(_)
\* ".".join(s.split(".")[1:])
after_first_dot(s) ==
    IF Len(s) = 0 THEN ""
    ELSE IF SubSeq(s, 1, 1) = "." THEN SubSeq(s, 2, Len(s))
    ELSE after_first_dot(SubSeq(s, 2, Len(s)))

(***************************************************************************)
(* The store: st.records is the dns_records table (a set: uq_dns_key makes *)
(* rows distinct), st.archive the dns_records_archive table in row order,  *)
(* st.conns the gateway_connections table in row order.  st.err is the     *)
(* exception that ended the operation, "" for none.                        *)
(***************************************************************************)
NoRec == [none |-> TRUE]
NoContent == "None"

Raise(st, e) == [st EXCEPT !.err = e]

\* DnsRecordRepo.exists: a matching row, or NoRec.  Without content several
\* rows can match and the query returns whichever the database yields first;
\* pref names the content of the row it yields.
DnsRecordRepo_exists(records, domain, name, type, content, pref) ==
    LET hits == {r \in records : /\ r.domain = domain
                                 /\ r.name = name
                                 /\ r.type = type
                                 /\ (content # NoContent => r.content = content)}
    IN IF hits = {} THEN NoRec
       ELSE IF \E r \in hits : r.content = pref THEN CHOOSE r \in hits : r.content = pref
       ELSE CHOOSE r \in hits : TRUE

\* the archive row's proxied as the query of DnsRecordRepo.create reads it:
\* from_dns_record sets no such value
ArchiveProxied(row) == IF "proxied" \in DOMAIN row THEN row.proxied ELSE "NULL"

RemoveAt(s, i) == SubSeq(s, 1, i - 1) \o SubSeq(s, i + 1, Len(s))

\* a create whose archive query evaluates and compares name, type and
\* content only
create_any_domain(st, rec) ==
    LET hits == {j \in 1..Len(st.archive) : /\ st.archive[j].name = rec.name
                                            /\ st.archive[j].type = rec.type
                                            /\ st.archive[j].content = rec.content}
    IN [st EXCEPT !.records = @ \cup {rec},
                  !.archive = IF hits = {} THEN @
                              ELSE RemoveAt(@, CHOOSE j \in hits : \A k \in hits : j <= k)]

\* DnsRecordRepo.create.  The query names DnsRecordArchive.proxied, an
\* attribute the mapped class does not have: evaluating it raises
\* AttributeError before the row is added.
DnsRecordRepo_create(st, rec) ==
    IF "proxied" \notin DnsRecordArchiveColumns THEN Raise(st, "AttributeError")
    ELSE LET Same(a) == /\ a.name = rec.name /\ a.type = rec.type
                        /\ a.content = rec.content /\ ArchiveProxied(a) = rec.proxied
             hits == {j \in 1..Len(st.archive) : Same(st.archive[j])}
             i == IF hits = {} THEN 0 ELSE CHOOSE j \in hits : \A k \in hits : j <= k
             arch == IF i = 0 THEN st.archive ELSE RemoveAt(st.archive, i)
         IN IF \E r \in st.records : uq_dns_key(r) = uq_dns_key(rec)
            THEN Raise(st, "IntegrityError")
            ELSE [st EXCEPT !.records = @ \cup {rec}, !.archive = arch]

\* DnsRecordRepo.update of the row old to the values new: when one of the
\* tracked fields changed (the model's rows carry no ttl and no priority),
\* the snapshot is archived; it has the old name, type, content and
\* managed_by and rec.domain_id, the domain the row has now.  One commit
\* writes both.
DnsRecordRepo_update(st, old, new) ==
    LET changed == \/ old.name # new.name \/ old.type # new.type
                   \/ old.content # new.content \/ old.proxied # new.proxied
        snap == [old EXCEPT !.domain = new.domain]
        arch == IF changed THEN Append(st.archive, from_dns_record(snap)) ELSE st.archive
    IN IF \E r \in st.records \ {old} : uq_dns_key(r) = uq_dns_key(new)
       THEN Raise(st, "IntegrityError")
       ELSE [st EXCEPT !.records = (@ \ {old}) \cup {new}, !.archive = arch]

\* DnsRecordRepo.delete: archive the row, then delete it.
DnsRecordRepo_delete(st, rec) ==
    IF rec \in st.records
    THEN [st EXCEPT !.records = @ \ {rec}, !.archive = Append(@, from_dns_record(rec))]
    ELSE st

\* DnsRecordRepo.delete_all_managed_by: archive every row of that owner, delete them.
DnsRecordRepo_delete_all_managed_by(st, managed_by) ==
    LET gone == {r \in st.records : r.managed_by = managed_by}
        rows == SetToSeq(gone)
    IN [st EXCEPT !.records = @ \ gone,
                  !.archive = @ \o [i \in 1..Len(rows) |-> from_dns_record(rows[i])]]

\* DnsRecordRepo.delete_all_with_domain_id: archive every row of the domain,
\* delete them.
DnsRecordRepo_delete_all_with_domain_id(st, domain) ==
    LET gone == {r \in st.records : r.domain = domain}
        rows == SetToSeq(gone)
    IN [st EXCEPT !.records = @ \ gone,
                  !.archive = @ \o [i \in 1..Len(rows) |-> from_dns_record(rows[i])]]

\* a delete_archived that leaves the row in the table
keep_archived(st, i) == st

\* DnsRecordRepo.delete_archived
DnsRecordRepo_delete_archived(st, i) == [st EXCEPT !.archive = RemoveAt(@, i)]

\* GatewayConnectionRepo.delete_all_managed_by
GatewayConnectionRepo_delete_all_managed_by(st, managed_by) ==
    [st EXCEPT !.conns = SelectSeq(@, LAMBDA c : c.managed_by # managed_by)]

\* GatewayConnectionRepo.create
GatewayConnectionRepo_create(st, conn) == [st EXCEPT !.conns = Append(@, conn)]


(***************************************************************************)
(* The Propagator, app/services/common.py propagate_changes.               *)
(*                                                                         *)
(* cfg.domains is DomainRepo.list_all (ordered by name), cfg.routes is     *)
(* NginxRouteRepo.list_all (row order), cfg.clients is                     *)
(* GatewayClientRepo.list_all (ordered by name); a client carries its      *)
(* server's name and host.                                                 *)
(***************************************************************************)
LOCAL_IP == "localhost"

DomainRepo_get(cfg, name) ==
    IF \E i \in 1..Len(cfg.domains) : cfg.domains[i].name = name
    THEN cfg.domains[CHOOSE i \in 1..Len(cfg.domains) : cfg.domains[i].name = name]
    ELSE NoRec

\* DomainRepo.delete
DomainRepo_delete(cfg, name) ==
    [cfg EXCEPT !.domains = SelectSeq(@, LAMBDA d : d.name # name)]

\* NginxRouteRepo.exists_with_domain_id
exists_with_domain_id(cfg, name) ==
    \E i \in 1..Len(cfg.routes) : cfg.routes[i].domain = name

\* NginxRouteRepo.list_all_active
list_all_active(cfg) == SelectSeq(cfg.routes, LAMBDA r : r.active)

\* NginxRouteRepo.list_by_domain
list_by_domain(cfg, domain) == SelectSeq(cfg.routes, LAMBDA r : r.domain = domain)

\* the nested helper apply_domain_proxy: Domain has no dns_proxy_enabled, so
\* reading it raises AttributeError ("AttributeError" stands for that here)
apply_domain_proxy(domain, desired) ==
    IF "dns_proxy_enabled" \notin DomainColumns THEN "AttributeError"
    ELSE IF ~domain.dns_proxy_enabled THEN FALSE ELSE desired

system_conn(client, port) ==
    [name |-> "origin_" \o client.server \o "_" \o ToString(port),
     client |-> client.name, protocol |-> "tcp", local_ip |-> LOCAL_IP,
     local_port |-> port, remote_port |-> port, managed_by |-> "SYSTEM"]

\* the stream routes' (port, subdomain, domain) of lines 114-132
stream_route_details(cfg) ==
    LET act == SelectSeq(list_all_active(cfg),
                         LAMBDA r : r.protocol = "STREAM" /\ stream_port(r.path_prefix) >= 0)
    IN [i \in 1..Len(act) |->
          [port |-> stream_port(act[i].path_prefix), subdomain |-> act[i].subdomain,
           domain |-> act[i].domain]]

\* lines 202-230 and 239-264: update the row exists() found, or create one
upsert_direct(st, ex, rec) ==
    IF ex # NoRec
    THEN DnsRecordRepo_update(st, ex, [ex EXCEPT !.content = rec.content,
                                                 !.proxied = FALSE,
                                                 !.managed_by = "SYSTEM"])
    ELSE DnsRecordRepo_create(st, rec)

\* a write of the proxied record that does not read the domain's flag
upsert_unchecked(st, domain, name, ip, pref) ==
    [st EXCEPT !.records = @ \cup {[domain |-> domain.name, name |-> name, type |-> "A",
                                    content |-> ip, proxied |-> TRUE,
                                    managed_by |-> "SYSTEM"]}]

\* lines 301-322, 336-359 and 363-387: the same for the proxied records;
\* both branches call apply_domain_proxy before they write
upsert_proxied(st, domain, name, ip, pref) ==
    LET ex == DnsRecordRepo_exists(st.records, domain.name, name, "A", ip, pref)
        px == apply_domain_proxy(domain, TRUE)
    IN IF px = "AttributeError" THEN Raise(st, "AttributeError")
       ELSE IF ex # NoRec
       THEN DnsRecordRepo_update(st, ex, [ex EXCEPT !.proxied = px, !.managed_by = "SYSTEM"])
       ELSE DnsRecordRepo_create(st, [domain |-> domain.name, name |-> name, type |-> "A",
                                      content |-> ip, proxied |-> px,
                                      managed_by |-> "SYSTEM"])

RECURSIVE stream_conns(_, _, _)
\* lines 174-187
stream_conns(st, client, details) ==
    IF details = <<>> THEN st
    ELSE stream_conns(GatewayConnectionRepo_create(st, system_conn(client, Head(details).port)),
                      client, Tail(details))

RECURSIVE stream_dns(_, _, _, _, _)
\* lines 189-230
stream_dns(st, cfg, client, details, pref) ==
    IF st.err # "" \/ details = <<>> THEN st
    ELSE LET d == Head(details)
             domain == DomainRepo_get(cfg, d.domain)
             ex == DnsRecordRepo_exists(st.records, d.domain, d.subdomain, "A", client.host, pref)
             rec == [domain |-> d.domain, name |-> d.subdomain, type |-> "A",
                     content |-> client.host, proxied |-> FALSE, managed_by |-> "SYSTEM"]
         IN stream_dns(IF domain = NoRec THEN st ELSE upsert_direct(st, ex, rec),
                       cfg, client, Tail(details), pref)

RECURSIVE direct_dns(_, _, _, _)
\* lines 232-264
direct_dns(st, client, domains, pref) ==
    IF st.err # "" \/ domains = <<>> THEN st
    ELSE LET domain == Head(domains)
             name == client.server \o ".direct"
             ex == DnsRecordRepo_exists(st.records, domain.name, name, "A", NoContent, pref)
             rec == [domain |-> domain.name, name |-> name, type |-> "A",
                     content |-> client.host, proxied |-> FALSE, managed_by |-> "SYSTEM"]
         IN direct_dns(IF domain.use_for_direct_prefix THEN upsert_direct(st, ex, rec) ELSE st,
                       client, Tail(domains), pref)

RECURSIVE process_clients(_, _, _, _)
\* lines 144-266
process_clients(st, cfg, clients, pref) ==
    IF st.err # "" \/ clients = <<>> THEN st
    ELSE LET client == Head(clients)
             s1 == GatewayConnectionRepo_create(st, system_conn(client, 80))
             s2 == GatewayConnectionRepo_create(s1, system_conn(client, 443))
             s3 == stream_conns(s2, client, stream_route_details(cfg))
             s4 == stream_dns(s3, cfg, client, stream_route_details(cfg), pref)
             s5 == direct_dns(s4, client, cfg.domains, pref)
         IN process_clients(IF client.is_origin THEN s5 ELSE st, cfg, Tail(clients), pref)

\* origin_ips as line 266 collects it
origin_ips(cfg) ==
    LET o == SelectSeq(cfg.clients, LAMBDA c : c.is_origin)
    IN [i \in 1..Len(o) |-> o[i].host]

\* the set subdomains of lines 277-285
wildcard_subdomains(cfg) ==
    {<<cfg.routes[i].subdomain, cfg.routes[i].domain>> : i \in
        {j \in 1..Len(cfg.routes) : DomainRepo_get(cfg, cfg.routes[j].domain).auto_wildcard}}

\* is_multilevel of lines 288-294
is_multilevel(cfg, route) ==
    \/ count_dots(route.subdomain) > 0
    \/ \E i \in 1..Len(cfg.routes) :
          /\ cfg.routes[i].domain = route.domain
          /\ cfg.routes[i].subdomain # route.subdomain
          /\ EndsWith(cfg.routes[i].subdomain, "." \o route.subdomain)
          /\ DomainRepo_get(cfg, route.domain).use_for_direct_prefix

RECURSIVE per_ip(_, _, _, _, _)
\* for ip in origin_ips: one proxied record of that name
per_ip(st, domain, name, ips, pref) ==
    IF st.err # "" \/ ips = <<>> THEN st
    ELSE per_ip(upsert_proxied(st, domain, name, Head(ips), pref), domain, name, Tail(ips), pref)

RECURSIVE multilevel_wildcards(_, _, _, _)
\* lines 280-322
multilevel_wildcards(st, cfg, routes, pref) ==
    IF st.err # "" \/ routes = <<>> THEN st
    ELSE LET route == Head(routes)
             domain == DomainRepo_get(cfg, route.domain)
             name == "*." \o after_first_dot(route.subdomain)
         IN multilevel_wildcards(
               IF domain.auto_wildcard /\ is_multilevel(cfg, route)
               THEN per_ip(st, domain, name, origin_ips(cfg), pref) ELSE st,
               cfg, Tail(routes), pref)

RECURSIVE root_and_wildcard_ip(_, _, _, _, _)
\* lines 333-387 for one domain
root_and_wildcard_ip(st, cfg, domain, ips, pref) ==
    IF st.err # "" \/ ips = <<>> THEN st
    ELSE LET subs == wildcard_subdomains(cfg)
             s1 == IF <<"@", domain.name>> \in subs
                   THEN upsert_proxied(st, domain, "@", Head(ips), pref) ELSE st
             s2 == IF s1.err = "" /\ (\E s \in subs : s[1] # "@")
                   THEN upsert_proxied(s1, domain, "*", Head(ips), pref) ELSE s1
         IN root_and_wildcard_ip(s2, cfg, domain, Tail(ips), pref)

RECURSIVE root_and_wildcard(_, _, _, _)
\* lines 327-387
root_and_wildcard(st, cfg, domains, pref) ==
    IF st.err # "" \/ domains = <<>> THEN st
    ELSE root_and_wildcard(
            IF Head(domains).auto_wildcard
            THEN root_and_wildcard_ip(st, cfg, Head(domains), origin_ips(cfg), pref) ELSE st,
            cfg, Tail(domains), pref)

\* propagate_changes: the store after the call, st.err the exception it raised
propagate_changes(st, cfg, pref) ==
    LET s0 == GatewayConnectionRepo_delete_all_managed_by(st, "SYSTEM")
        s1 == DnsRecordRepo_delete_all_managed_by(s0, "SYSTEM")
        s2 == process_clients(s1, cfg, cfg.clients, pref)
        s3 == multilevel_wildcards(s2, cfg, cfg.routes, pref)
    IN root_and_wildcard(s3, cfg, cfg.domains, pref)


(***************************************************************************)
(* The DNS reconciler, app/services/cloudflare.py CloudFlareManager.       *)
(*                                                                         *)
(* The provider zone content is a set of [domain, name, type, content,     *)
(* proxied] with name the FQDN and domain the zone's name.  A run is the   *)
(* record y: y.st the store, y.remote the provider, y.entries the cache's  *)
(* remote_entries, y.calls the mutating provider calls issued, in order,   *)
(* y.err the exception that ended it.                                      *)
(***************************************************************************)
\* CloudFlareManager._get_fqdn
get_fqdn(record) ==
    IF record.name # "@" THEN record.name \o "." \o record.domain ELSE record.domain

\* CloudFlareManager._get_shared_record_from_db; an archive row has no
\* proxied attribute, so hasattr() is false for it
get_shared_record_from_db(record) ==
    [domain |-> record.domain, name |-> get_fqdn(record), type |-> record.type,
     content |-> record.content,
     proxied |-> IF "proxied" \in DOMAIN record THEN record.proxied ELSE FALSE,
     managed_by |-> record.managed_by]

\* CloudFlareManager._get_shared_record_from_cf
get_shared_record_from_cf(domain, entry) ==
    [domain |-> domain, name |-> entry.name, type |-> entry.type,
     content |-> entry.content, proxied |-> entry.proxied, managed_by |-> "IMPORTED"]

\* SharedRecordType: equality and hash leave managed_by out
SharedKey(t) == <<t.domain, t.name, t.type, t.content, t.proxied>>

SharedIn(t, S) == \E e \in S : SharedKey(e) = SharedKey(t)

\* set.add / set.update keep the element already there
SharedAdd(S, t) == IF SharedIn(t, S) THEN S ELSE S \cup {t}

SharedDiscard(S, t) == {e \in S : SharedKey(e) # SharedKey(t)}

RECURSIVE SharedUpdate(_, _)
SharedUpdate(S, list) ==
    IF list = <<>> THEN S ELSE SharedUpdate(SharedAdd(S, Head(list)), Tail(list))

\* CloudFlareManager._get_zone: the zone of that name, if the account has one
get_zone(zones, domain) == IF domain \in zones THEN domain ELSE "None"

\* the relative name of an imported record, line 212
imported_name(entry, domain) ==
    IF EndsWith(entry.name, "." \o domain)
    THEN SubSeq(entry.name, 1, Len(entry.name) - Len(domain) - 1) ELSE "@"

\* the k-th mutating provider call fails when the environment says so
ApiFails(y, failAt) == failAt # 0 /\ Len(y.calls) + 1 = failAt

RECURSIVE import_entries(_, _, _, _, _)
\* lines 198-222 for the listing of one zone
import_entries(y, domain, entries, local_entries, local_archived) ==
    IF y.err # "" \/ entries = <<>> THEN y
    ELSE LET entry == Head(entries)
             shared == get_shared_record_from_cf(domain, entry)
             known == IF SharedIn(shared, local_entries)
                      THEN CHOOSE e \in local_entries : SharedKey(e) = SharedKey(shared)
                      ELSE IF SharedIn(shared, local_archived)
                      THEN CHOOSE e \in local_archived : SharedKey(e) = SharedKey(shared)
                      ELSE NoRec
             st2 == DnsRecordRepo_create(y.st,
                       [domain |-> domain, name |-> imported_name(entry, domain),
                        type |-> entry.type, content |-> entry.content,
                        proxied |-> entry.proxied, managed_by |-> "IMPORTED"])
             y2 == IF known # NoRec
                   THEN [y EXCEPT !.entries =
                            SharedAdd(@, [shared EXCEPT !.managed_by = known.managed_by])]
                   ELSE IF st2.err # "" THEN [y EXCEPT !.err = st2.err]
                   ELSE [y EXCEPT !.st = st2, !.entries = SharedAdd(@, shared)]
         IN import_entries(y2, domain, Tail(entries), local_entries, local_archived)

RECURSIVE import_zones(_, _, _, _, _)
\* lines 191-222
import_zones(y, domains, zones, local_entries, local_archived) ==
    IF y.err # "" \/ domains = <<>> THEN y
    ELSE LET domain == Head(domains).name
             listing == SetToSeq({r \in y.remote : r.domain = domain})
         IN import_zones(IF get_zone(zones, domain) = "None" THEN y
                         ELSE import_entries(y, domain, listing, local_entries, local_archived),
                         Tail(domains), zones, local_entries, local_archived)

\* CloudFlareManager._get_cf_record_id against the listing taken at the start
get_cf_record_id(listing, zones, record) ==
    LET hits == {e \in listing : /\ e.domain = record.domain
                                 /\ e.name = get_fqdn(record)
                                 /\ e.type = record.type
                                 /\ e.content = record.content}
    IN IF get_zone(zones, record.domain) = "None" \/ hits = {} THEN NoRec
       ELSE CHOOSE e \in hits : TRUE

\* CloudFlareManager._delete_cloudflare_record
delete_cloudflare_record(y, listing, zones, record, dry_run, failAt) ==
    LET found == get_cf_record_id(listing, zones, record)
    IN IF found = NoRec \/ dry_run THEN y
       ELSE IF ApiFails(y, failAt) THEN [y EXCEPT !.err = "APIError"]
       ELSE [y EXCEPT !.remote = @ \ {found},
                      !.calls = Append(@, [op |-> "delete", rec |-> found])]

\* CloudFlareManager._create_cloudflare_record; the provider refuses a record
\* whose name, type and content it already holds
create_cloudflare_record(y, zones, record, dry_run, failAt) ==
    LET new == [domain |-> record.domain, name |-> get_fqdn(record), type |-> record.type,
                content |-> record.content, proxied |-> record.proxied]
    IN IF dry_run THEN y
       ELSE IF get_zone(zones, record.domain) = "None" THEN [y EXCEPT !.err = "AttributeError"]
       ELSE IF ApiFails(y, failAt) THEN [y EXCEPT !.err = "APIError"]
       ELSE IF \E e \in y.remote : /\ e.domain = new.domain /\ e.name = new.name
                                   /\ e.type = new.type /\ e.content = new.content
       THEN [y EXCEPT !.err = "APIError"]
       ELSE [y EXCEPT !.remote = @ \cup {new},
                      !.calls = Append(@, [op |-> "create", rec |-> new])]

\* a loop body that removes the archive row whether or not the provider's
\* delete returned
row_done_anyway(y1, hit, shared) ==
    [y1 EXCEPT !.st = DnsRecordRepo_delete_archived(@, 1)]

\* lines 233-234: once _delete_cloudflare_record has returned, the tuple
\* leaves remote_entries and the archive row is deleted; an exception of
\* the provider call leaves the loop before that
row_done(y1, hit, shared) ==
    IF y1.err # "" THEN y1
    ELSE [y1 EXCEPT !.entries = IF hit THEN SharedDiscard(@, shared) ELSE @,
                    !.st = DnsRecordRepo_delete_archived(@, 1)]

RECURSIVE purge_archived(_, _, _, _, _, _, _)
\* lines 228-234: rows is list_archived() as read when the loop starts.  An
\* archive row of a domain that is gone has record.domain None, and
\* _get_fqdn raises on it.
purge_archived(y, cfg, rows, listing, zones, dry_run, failAt) ==
    IF y.err # "" \/ rows = <<>> THEN y
    ELSE IF DomainRepo_get(cfg, Head(rows).domain) = NoRec
    THEN [y EXCEPT !.err = "AttributeError"]
    ELSE LET entry == Head(rows)
             shared == get_shared_record_from_db(entry)
             hit == SharedIn(shared, y.entries) /\ entry.managed_by # "IMPORTED"
             y1 == IF hit THEN delete_cloudflare_record(y, listing, zones, entry, dry_run, failAt)
                   ELSE y
             y2 == row_done(y1, hit, shared)
         IN purge_archived(y2, cfg, Tail(rows), listing, zones, dry_run, failAt)

\* a lookup that finds no row for the tuple
no_db_record(records, shared) == NoRec

\* CloudFlareManager._get_db_record_from_shared
get_db_record_from_shared(records, shared) ==
    LET hits == {r \in records : /\ r.domain = shared.domain
                                 /\ get_fqdn(r) = shared.name
                                 /\ r.type = shared.type
                                 /\ r.content = shared.content}
    IN IF hits = {} THEN NoRec ELSE CHOOSE r \in hits : TRUE

RECURSIVE create_missing(_, _, _, _, _)
\* lines 239-247
create_missing(y, missing, zones, dry_run, failAt) ==
    IF y.err # "" \/ missing = <<>> THEN y
    ELSE LET entry == Head(missing)
             db_record == get_db_record_from_shared(y.st.records, entry)
             y1 == IF db_record = NoRec THEN y
                   ELSE create_cloudflare_record(y, zones, db_record, dry_run, failAt)
             y2 == IF y1.err # "" \/ db_record = NoRec THEN y1
                   ELSE [y1 EXCEPT !.entries = SharedAdd(@, entry)]
         IN create_missing(y2, Tail(missing), zones, dry_run, failAt)

\* the tuples of lines 184-185
sync_local_entries(st) ==
    SharedUpdate({}, SetToSeq({get_shared_record_from_db(e) :
                                 e \in {r \in st.records : r.managed_by # "IMPORTED"}}))

sync_local_archived(st) ==
    LET rows == SelectSeq(st.archive, LAMBDA e : e.managed_by # "IMPORTED")
    IN SharedUpdate({}, [i \in 1..Len(rows) |-> get_shared_record_from_db(rows[i])])

\* CloudFlareManager.sync
sync(st, remote, cfg, zones, dry_run, failAt) ==
    LET y0 == [st |-> st, remote |-> remote, entries |-> {}, calls |-> <<>>, err |-> ""]
        dangling == \E i \in 1..Len(st.archive) :
                       /\ st.archive[i].managed_by # "IMPORTED"
                       /\ DomainRepo_get(cfg, st.archive[i].domain) = NoRec
        local_entries == sync_local_entries(st)
        local_archived == sync_local_archived(st)
        y1 == [y0 EXCEPT !.st = DnsRecordRepo_delete_all_managed_by(@, "IMPORTED")]
        y2 == import_zones(y1, cfg.domains, zones, local_entries, local_archived)
        y3 == purge_archived(y2, cfg, y2.st.archive, remote, zones, dry_run, failAt)
        missing == SetToSeq({e \in local_entries : ~SharedIn(e, y3.entries)})
    IN IF dangling THEN [y0 EXCEPT !.err = "AttributeError"]
       ELSE create_missing(y3, missing, zones, dry_run, failAt)


(***************************************************************************)
(* The Origin-CA manager, app/services/cloudflare.py                       *)
(* CloudFlareOriginCAManager.                                              *)
(*                                                                         *)
(* A certificate at the CA is [id, label, days]: its hostnames are label   *)
(* and *.label, days is the time left until it expires.  The CA lists a    *)
(* certificate under the zone its hostnames belong to.  The disk is a set  *)
(* of <<label, file name>>.  A run is the record w: w.certs, w.disk,       *)
(* w.calls the mutating CA calls in order, w.err.                          *)
(***************************************************************************)
CF_RENEW_SOON == 30
CF_CERT_DAYS == 5475

\* the certificates origin_ca_certificates.list(zone_id) returns
certs_of_zone(certs, zone) ==
    {c \in certs : c.label = zone \/ EndsWith(c.label, "." \o zone)}

\* CloudFlareOriginCAManager._index_existing for one zone: hostnames -> certificate.
\* The dict comprehension keeps the last certificate the listing yields for
\* the same hostnames; newest_last says whether the listing ends with the
\* newest one.
index_existing(certs, zone, newest_last) ==
    LET zc == certs_of_zone(certs, zone)
        labels == {c.label : c \in zc}
        Last(l) == CHOOSE c \in zc : /\ c.label = l
                                     /\ \A d \in zc : d.label = l =>
                                           IF newest_last THEN d.id <= c.id ELSE d.id >= c.id
    IN [l \in labels |-> Last(l)]

\* CloudFlareOriginCAManager._get_labels: domain -> set of labels
relevant_entries(entries) ==
    {r \in entries : r.managed_by = "SYSTEM" /\ r.type \in {"A", "AAAA"} /\ r.proxied}

label_of(entry) ==
    IF StartsWith(entry.name, "*") THEN SubSeq(entry.name, 3, Len(entry.name)) ELSE entry.name

get_labels(entries) ==
    LET rel == relevant_entries(entries)
    IN [d \in {r.domain : r \in rel} |-> {label_of(r) : r \in {e \in rel : e.domain = d}}]

\* an _expiring that finds no certificate close to its end
never_expiring(cert) == FALSE

\* CloudFlareOriginCAManager._expiring
expiring(cert) == cert.days < CF_RENEW_SOON

\* CloudFlareOriginCAManager._is_on_disk
is_on_disk(disk, label) ==
    <<label, "fullchain.pem">> \in disk /\ <<label, "privkey.pem">> \in disk

\* CloudFlareOriginCAManager._ensure_key_and_csr
ensure_key_and_csr(disk, label) ==
    disk \cup {<<label, "privkey.pem">>, <<label, "req.csr">>}

\* CloudFlareOriginCAManager._write_to_disk
write_to_disk(disk, label) ==
    disk \cup {<<label, "fullchain.pem">>, <<label, "privkey.pem">>}

CaFails(w, failAt) == failAt # 0 /\ Len(w.calls) + 1 = failAt

NextCertId(certs) ==
    IF certs = {} THEN 1 ELSE 1 + (CHOOSE n \in {c.id : c \in certs} : \A c \in certs : c.id <= n)

\* a _create_or_renew_cert that does not look at dry_run
create_cert_always(w, label, dry_run, failAt) ==
    [w EXCEPT !.certs = @ \cup {[id |-> 0, label |-> label, days |-> CF_CERT_DAYS]},
              !.disk = @ \cup {<<label, "fullchain.pem">>, <<label, "privkey.pem">>},
              !.calls = Append(@, [op |-> "create", label |-> label, id |-> 0])]

\* CloudFlareOriginCAManager._create_or_renew_cert with _upload_csr
create_or_renew_cert(w, label, dry_run, failAt) ==
    IF dry_run THEN w
    ELSE LET d1 == ensure_key_and_csr(w.disk, label)
             cert == [id |-> NextCertId(w.certs), label |-> label, days |-> CF_CERT_DAYS]
         IN IF CaFails(w, failAt) THEN [w EXCEPT !.disk = d1, !.err = "APIError"]
            ELSE [w EXCEPT !.certs = @ \cup {cert},
                           !.disk = write_to_disk(d1, label),
                           !.calls = Append(@, [op |-> "create", label |-> label,
                                                id |-> cert.id])]

RECURSIVE ca_want_loop(_, _, _, _, _)
\* the first loop of _sync_zone
ca_want_loop(w, existing_certs, hosts, dry_run, failAt) ==
    IF w.err # "" \/ hosts = <<>> THEN w
    ELSE LET label == Head(hosts)
             valid == /\ label \in DOMAIN existing_certs
                      /\ ~expiring(existing_certs[label])
                      /\ is_on_disk(w.disk, label)
         IN ca_want_loop(IF valid THEN w ELSE create_or_renew_cert(w, label, dry_run, failAt),
                         existing_certs, Tail(hosts), dry_run, failAt)

RECURSIVE ca_revoke_loop(_, _, _, _, _)
\* the second loop of _sync_zone
ca_revoke_loop(w, existing_certs, hosts, dry_run, failAt) ==
    IF w.err # "" \/ hosts = <<>> THEN w
    ELSE LET cert == existing_certs[Head(hosts)]
             w1 == IF dry_run THEN w
                   ELSE IF CaFails(w, failAt) THEN [w EXCEPT !.err = "APIError"]
                   ELSE [w EXCEPT !.certs = @ \ {cert},
                                  !.calls = Append(@, [op |-> "revoke", label |-> cert.label,
                                                       id |-> cert.id])]
         IN ca_revoke_loop(w1, existing_certs, Tail(hosts), dry_run, failAt)

\* CloudFlareOriginCAManager._sync_zone
sync_zone(w, existing_certs, wanted_hosts, dry_run, failAt) ==
    LET w1 == ca_want_loop(w, existing_certs, SetToSeq(wanted_hosts), dry_run, failAt)
    IN ca_revoke_loop(w1, existing_certs, SetToSeq(DOMAIN existing_certs \ wanted_hosts),
                      dry_run, failAt)

RECURSIVE ca_zones(_, _, _, _, _, _)
ca_zones(w, zones, existing, wanted, dry_run, failAt) ==
    IF w.err # "" \/ zones = <<>> THEN w
    ELSE ca_zones(IF Head(zones) \notin DOMAIN wanted THEN w
                  ELSE sync_zone(w, existing[Head(zones)], wanted[Head(zones)], dry_run, failAt),
                  Tail(zones), existing, wanted, dry_run, failAt)

\* CloudFlareOriginCAManager.sync
ca_sync(certs, disk, entries, zones, dry_run, failAt, newest_last) ==
    LET w0 == [certs |-> certs, disk |-> disk, calls |-> <<>>, err |-> ""]
        existing == [z \in zones |-> index_existing(certs, z, newest_last)]
    IN ca_zones(w0, SetToSeq(zones), existing, get_labels(entries), dry_run, failAt)


(***************************************************************************)
(* The nginx generator, app/services/nginx.py NginxConfigGenerator.        *)
(*                                                                         *)
(* A configuration text is modelled by what it says: the HTTP file is      *)
(* [kind, redirects, servers], redirects the domains of the port 80 server *)
(* blocks in order, servers the port 443 server blocks in order; the       *)
(* stream file is the sequence of its server blocks.  A route carries      *)
(* hosts, a sequence of [host, active], and backend_path.                  *)
(***************************************************************************)
Absent == [absent |-> TRUE]

\* NginxConfigGenerator._get_upstream_name
get_upstream_name(counter) == "upstream_" \o ToString(counter)

\* NginxConfigGenerator._get_upstream: the server lines of the active targets
get_upstream(upstream_name, targets) ==
    LET act == SelectSeq(targets, LAMBDA t : t.active)
    IN [name |-> upstream_name, servers |-> [i \in 1..Len(act) |-> act[i].host]]

RECURSIVE str_replace(_, _, _)
\* str.replace(old, new)
str_replace(s, old, new) ==
    IF Len(s) = 0 THEN ""
    ELSE IF StartsWith(s, old) THEN new \o str_replace(SubSeq(s, Len(old) + 1, Len(s)), old, new)
    ELSE SubSeq(s, 1, 1) \o str_replace(SubSeq(s, 2, Len(s)), old, new)

\* "*" in s
HasStar(s) == \E i \in 1..Len(s) : SubSeq(s, i, i) = "*"

\* "{host}" in the f-string of a REDIRECT location: NginxRouteHost defines
\* neither __str__ nor __repr__, so the text is the default repr of the row
\* object, which tells the object (here by its host) and not its address
host_repr(h) == "<app.persistence.models.NginxRouteHost object " \o h.host \o ">"

RECURSIVE generate_http_path_blocks(_, _)
\* NginxConfigGenerator._generate_http_path_blocks: g.locs the location
\* blocks, g.ups the upstream blocks, g.counter the upstream counter
generate_http_path_blocks(g, routes) ==
    IF routes = <<>> THEN g
    ELSE LET route == Head(routes)
             path == IF StartsWith(route.path_prefix, "/") THEN route.path_prefix
                     ELSE "/" \o route.path_prefix
             upstream_name == get_upstream_name(g.counter + 1)
             protocol == IF route.protocol = "HTTP" THEN "http://" ELSE "https://"
             g1 == IF route.protocol = "STREAM" THEN g
                   ELSE IF route.protocol = "REDIRECT" /\ route.hosts # <<>>
                   THEN [g EXCEPT !.locs = Append(@, [path |-> path,
                                                      proxy_pass |-> host_repr(route.hosts[1])])]
                   ELSE [g EXCEPT !.counter = @ + 1,
                                  !.ups = Append(@, get_upstream(upstream_name, route.hosts)),
                                  !.locs = Append(@, [path |-> path,
                                     proxy_pass |-> protocol \o upstream_name
                                                      \o route.backend_path])]
         IN generate_http_path_blocks(g1, Tail(routes))

\* the certificate directory of lines 145-168
crt_path(subdomain, domain, enable_letsencrypt) ==
    IF enable_letsencrypt
    THEN [dir |-> "LE_SSL_DIR",
          name |-> IF subdomain \in {"@", ""} THEN domain
                   ELSE IF StartsWith(subdomain, "*.") THEN "wildcard." \o domain
                   ELSE IF HasStar(subdomain)
                   THEN str_replace(str_replace(subdomain, "*.", "wildcard."), "*", "wildcard")
                   ELSE subdomain \o "." \o domain]
    ELSE [dir |-> "CF_SSL_DIR",
          name |-> (IF subdomain \in {"@", ""} \/ count_dots(subdomain) = 0 THEN ""
                    ELSE after_first_dot(subdomain) \o ".") \o domain]

\* a grouping that opens a group for every route
ungrouped_keys(routes, seen) ==
    [i \in 1..Len(routes) |-> <<routes[i].subdomain, routes[i].domain>>]

RECURSIVE group_keys(_, _)
\* the keys of the dict subdomains, in insertion order
group_keys(routes, seen) ==
    IF routes = <<>> THEN seen
    ELSE LET key == <<Head(routes).subdomain, Head(routes).domain>>
         IN group_keys(Tail(routes),
                       IF \E i \in 1..Len(seen) : seen[i] = key THEN seen ELSE Append(seen, key))

RECURSIVE generate_http_subdomain_blocks(_, _, _, _)
\* NginxConfigGenerator._generate_http_subdomain_blocks
generate_http_subdomain_blocks(g, cfg, keys, enable_letsencrypt) ==
    IF keys = <<>> THEN g
    ELSE LET subdomain == Head(keys)[1]
             domain == Head(keys)[2]
             routes == SelectSeq(list_all_active(cfg),
                                 LAMBDA r : r.subdomain = subdomain /\ r.domain = domain)
             b == generate_http_path_blocks([locs |-> <<>>, ups |-> <<>>,
                                             counter |-> g.counter], routes)
             block == [upstreams |-> b.ups,
                       server_name |-> IF subdomain # "@" THEN subdomain \o "." \o domain
                                       ELSE domain,
                       ssl_certificate |-> crt_path(subdomain, domain, enable_letsencrypt),
                       locations |-> b.locs]
         IN generate_http_subdomain_blocks(
               [counter |-> b.counter,
                servers |-> IF b.locs = <<>> THEN g.servers ELSE Append(g.servers, block)],
               cfg, Tail(keys), enable_letsencrypt)

\* the domains that get a port 80 server block
redirect_domains(cfg) ==
    LET ds == SelectSeq(cfg.domains,
                        LAMBDA d : \E i \in 1..Len(cfg.routes) :
                                      cfg.routes[i].domain = d.name /\ cfg.routes[i].active)
    IN [i \in 1..Len(ds) |-> ds[i].name]

\* NginxConfigGenerator._generate_http_config: the text and the counter after it
generate_http_config(cfg, enable_letsencrypt) ==
    LET g == generate_http_subdomain_blocks([counter |-> 0, servers |-> <<>>], cfg,
                                            group_keys(list_all_active(cfg), <<>>),
                                            enable_letsencrypt)
    IN [text |-> [kind |-> "full", redirects |-> redirect_domains(cfg), servers |-> g.servers],
        counter |-> g.counter]

RECURSIVE stream_blocks(_, _)
stream_blocks(g, routes) ==
    IF routes = <<>> THEN g
    ELSE LET route == Head(routes)
             port == stream_port(route.path_prefix)
             name == get_upstream_name(g.counter + 1)
             skip == port < 0 \/ ~(\E i \in 1..Len(route.hosts) : route.hosts[i].active)
         IN stream_blocks(IF skip THEN g
                          ELSE [counter |-> g.counter + 1,
                                servers |-> Append(g.servers,
                                    [upstream |-> get_upstream(name, route.hosts),
                                     listen |-> port])],
                          Tail(routes))

\* NginxConfigGenerator._generate_stream_config
generate_stream_config(cfg, counter) ==
    LET stream_routes == SelectSeq(list_all_active(cfg), LAMBDA r : r.protocol = "STREAM")
    IN IF stream_routes = <<>> THEN <<"# No stream configurations found">>
       ELSE stream_blocks([counter |-> counter, servers |-> <<>>], stream_routes).servers

\* NginxConfigGenerator.__init__ / generate_config: the files after it;
\* n.writes counts the files it wrote
NginxConfigGenerator(files, cfg, dry_run, enable_letsencrypt) ==
    LET h == generate_http_config(cfg, enable_letsencrypt)
        t == generate_stream_config(cfg, h.counter)
    IN [http_text |-> h.text, stream_text |-> t,
        files |-> IF dry_run THEN files ELSE [files EXCEPT !.http = h.text, !.stream = t],
        writes |-> IF dry_run THEN 0 ELSE 2]


(***************************************************************************)
(* The ACME manager, app/services/letsencrypt.py LetsEncryptManager.       *)
(*                                                                         *)
(* le certs is the set of [domain, days, names] of the certificates under  *)
(* LE_SSL_DIR/live, days the whole days left, names the names certbot was  *)
(* given with -d.  o is what the environment   *)
(* does during the run: o.certbot[k] whether the k-th certbot run exits 0, *)
(* o.reload_ok whether nginx reloads, o.cp_ok whether cp succeeds.  A run  *)
(* is the record z: z.certs, z.files, z.certbot_calls, z.reloads, z.err,   *)
(* and z.fallbacks, one [before, after] per HTTP-only retry: the content   *)
(* of the nginx HTTP file before the retry and when _create_certificate    *)
(* was left.                                                               *)
(***************************************************************************)
LE_RENEW_SOON == 30

\* LetsEncryptManager.get_certificate_path: the directory of the domain's
\* certificate under LE_SSL_DIR/live, whatever the subdomain
get_certificate_path(domain_name, subdomain) ==
    [dir |-> "LE_SSL_DIR/live", name |-> domain_name]

\* CertificateInfo.needs_renewal
needs_renewal(cert) == cert.days <= LE_RENEW_SOON

\* LetsEncryptManager._get_certificate_info
get_certificate_info(certs, domain_name) ==
    IF \E c \in certs : c.domain = domain_name
    THEN CHOOSE c \in certs : c.domain = domain_name ELSE NoRec

\* the names one route adds, lines 117-131
le_name(route, domain) ==
    IF route.subdomain \in {"@", ""} THEN domain
    ELSE IF HasStar(route.subdomain) THEN "*." \o domain
    ELSE route.subdomain \o "." \o domain

\* LetsEncryptManager._get_domains_to_manage, in the order of the dict
get_domains_to_manage(cfg) ==
    LET ds == redirect_domains(cfg)
    IN [i \in 1..Len(ds) |->
          [domain |-> ds[i],
           subdomains |-> {le_name(r, ds[i]) :
                             r \in {x \in Range(cfg.routes) : x.domain = ds[i] /\ x.active}}]]

\* LetsEncryptManager._generate_http_only_nginx_config: the text it writes
http_only_config(cfg) ==
    [kind |-> "http_only", redirects |-> redirect_domains(cfg), servers |-> <<>>]

\* LetsEncryptManager._restore_nginx_config: its first statement is return
restore_nginx_config(files) == files

\* LetsEncryptManager._run_certbot: [z, success]
run_certbot(z, primary_domain, domains, o) ==
    LET k == Len(z.certbot_calls) + 1
        success == k <= Len(o.certbot) /\ o.certbot[k]
        fresh == [domain |-> primary_domain, days |-> LE_RENEW_SOON + 60, names |-> domains]
    IN [z |-> [z EXCEPT !.certbot_calls = Append(@, primary_domain),
                        !.certs = IF success
                                  THEN {c \in @ : c.domain # primary_domain} \cup {fresh}
                                  ELSE @],
        success |-> success]

\* a retry that runs certbot again without switching nginx to the HTTP-only
\* configuration
retry_blind(z, primary_domain, domains, cfg, o) ==
    LET r == run_certbot(z, primary_domain, domains, o)
    IN [z |-> r.z, success |-> r.success, written |-> FALSE]

\* LetsEncryptManager._retry_with_http_only_config: [z, success, written];
\* written says that the HTTP-only configuration was written
retry_with_http_only_config(z, primary_domain, domains, cfg, o) ==
    LET exists == z.files.http # Absent
        f1 == IF exists THEN [z.files EXCEPT !.backup = z.files.http] ELSE z.files
        f2 == [f1 EXCEPT !.http = http_only_config(cfg)]
        z2 == [z EXCEPT !.files = f2, !.reloads = @ + 1]
        r == run_certbot(z2, primary_domain, domains, o)
        restored == IF r.z.files.backup # Absent
                    THEN [r.z EXCEPT !.files = restore_nginx_config(@), !.reloads = @ + 1]
                    ELSE r.z
    IN IF exists /\ ~o.cp_ok
       THEN \* the except branch, lines 348-354
            [z |-> IF z.files.backup # Absent
                   THEN [z EXCEPT !.files = restore_nginx_config(@), !.reloads = @ + 1]
                   ELSE z,
             success |-> FALSE, written |-> FALSE]
       ELSE IF ~o.reload_ok
       THEN [z |-> [z EXCEPT !.files = restore_nginx_config(f2)],
             success |-> FALSE, written |-> TRUE]
       ELSE [z |-> restored, success |-> r.success, written |-> TRUE]

\* LetsEncryptManager._create_certificate
create_certificate(z, primary_domain, domains, cfg, dry_run, o) ==
    LET first == run_certbot(z, primary_domain, domains, o)
        retry == retry_with_http_only_config(first.z, primary_domain, domains, cfg, o)
        left == [retry.z EXCEPT !.fallbacks = Append(@, [before |-> first.z.files.http,
                                                         after |-> retry.z.files.http,
                                                         written |-> retry.written,
                                                         success |-> retry.success]),
                                !.err = IF retry.success THEN "" ELSE "RuntimeError"]
    IN IF dry_run THEN z
       ELSE IF first.success THEN first.z
       ELSE left

\* LetsEncryptManager._sync_domain
sync_domain(z, domain_name, subdomains, cfg, dry_run, o) ==
    LET non_wildcard_subdomains == {x \in subdomains : ~StartsWith(x, "*")}
        cert_info == get_certificate_info(z.certs, domain_name)
    IN IF non_wildcard_subdomains = {} THEN z
       ELSE IF cert_info # NoRec /\ ~needs_renewal(cert_info) THEN z
       ELSE create_certificate(z, domain_name, non_wildcard_subdomains, cfg, dry_run, o)

RECURSIVE le_domains(_, _, _, _, _)
le_domains(z, domains, cfg, dry_run, o) ==
    IF z.err # "" \/ domains = <<>> THEN z
    ELSE le_domains(sync_domain(z, Head(domains).domain, Head(domains).subdomains,
                                cfg, dry_run, o),
                    Tail(domains), cfg, dry_run, o)

\* LetsEncryptManager.sync
le_sync(certs, files, cfg, dry_run, le_email, o) ==
    LET z0 == [certs |-> certs, files |-> files, certbot_calls |-> <<>>, reloads |-> 0,
               err |-> "", fallbacks |-> <<>>]
    IN IF ~le_email THEN z0 ELSE le_domains(z0, get_domains_to_manage(cfg), cfg, dry_run, o)


(***************************************************************************)
(* The IP range cache, app/services/cloudflare.py CloudflareIPCache.       *)
(*                                                                         *)
(* Time is counted in ticks.  c.obj is the instance: cache_path (whether   *)
(* one is configured), ttl_seconds, _ipv4, _ipv6, _fetched_at; c.file is   *)
(* the content of the cache file, NoFile when there is none or it cannot   *)
(* be parsed; c.now is time.time().  A list of CIDRs is a sequence.        *)
(***************************************************************************)
IpTtl == 2

MaxNow == 5

NoFile == [none |-> TRUE]

\* CloudflareIPCache(cache_path, ttl_seconds) as the dataclass builds it
IpCache0(cache_path, file) ==
    [obj |-> [cache_path |-> cache_path, ttl_seconds |-> IpTtl,
              ipv4 |-> <<>>, ipv6 |-> <<>>, fetched_at |-> 0],
     file |-> file, now |-> IpTtl]

\* CloudflareIPCache._fetch_from_cf with _fetch_cidr_list: a request that
\* fails gives the empty list
fetch_from_cf(ok4, ok6) ==
    <<IF ok4 THEN <<"173.245.48.0/20">> ELSE <<>>,
      IF ok6 THEN <<"2400:cb00::/32">> ELSE <<>>>>

\* CloudflareIPCache.get: [c, ret, fetched]; ok4 and ok6 say whether the two
\* requests of a fetch succeed, write_ok whether the cache file can be
\* written
CloudflareIPCache_get(c, force_refresh, ok4, ok6, write_ok) ==
    LET o == c.obj
        now == c.now
        memory == /\ ~force_refresh /\ o.ipv4 # <<>> /\ o.ipv6 # <<>>
                  /\ now - o.fetched_at < o.ttl_seconds
        ondisk == /\ ~force_refresh /\ o.cache_path /\ c.file # NoFile
                  /\ now - c.file.fetched_at < o.ttl_seconds
        got == fetch_from_cf(ok4, ok6)
        fresh == [fetched_at |-> now, ipv4 |-> got[1], ipv6 |-> got[2]]
    IN IF memory THEN [c |-> c, ret |-> <<o.ipv4, o.ipv6>>, fetched |-> FALSE]
       ELSE IF ondisk
       THEN [c |-> [c EXCEPT !.obj.ipv4 = c.file.ipv4, !.obj.ipv6 = c.file.ipv6,
                             !.obj.fetched_at = c.file.fetched_at],
             ret |-> <<c.file.ipv4, c.file.ipv6>>, fetched |-> FALSE]
       ELSE [c |-> [c EXCEPT !.obj.ipv4 = got[1], !.obj.ipv6 = got[2],
                             !.obj.fetched_at = now,
                             !.file = IF o.cache_path /\ write_ok THEN fresh ELSE @],
             ret |-> got, fetched |-> TRUE]


(***************************************************************************)
(* The publish job, app/services/common.py.                                *)
(***************************************************************************)
JOB_OK == "Publish job completed successfully."

JOB_FAILED(e) == "Publish job failed: " \o e

None == "None"

\* lines 84-87: what a run writes to JOB_RESULT
job_result_of(err) == IF err = "" THEN JOB_OK ELSE JOB_FAILED(err)

\* the order in which the DNS sync and the certificate syncs come first
GeneratorLast == <<"dns", "ca", "le", "nginx", "reload">>

\* the stages of lines 57-82 in the order the statements come
StageOrder == <<"nginx", "dns", "ca", "le", "reload">>

\* the stage after stage s; the reload is skipped unless ENABLE_NGINX
next_stage(s, enable_nginx) ==
    LET i == CHOOSE k \in 1..Len(StageOrder) : StageOrder[k] = s
    IN IF i = Len(StageOrder) THEN "result"
       ELSE IF StageOrder[i + 1] = "reload" /\ ~enable_nginx THEN "result"
       ELSE StageOrder[i + 1]

(***************************************************************************)
(* The state.                                                              *)
(*   store, cfg             the SQLite database: DNS records, archive and  *)
(*                          gateway connections; domains, routes, clients  *)
(*   remote, zones, ca      the provider: zone content, zones, Origin-CA   *)
(*                          certificates                                   *)
(*   disk, le, files        CF_SSL_DIR, the certificates under LE_SSL_DIR, *)
(*                          the nginx config files and the backup          *)
(*   settings               app/config.py                                  *)
(*   cache                  the CloudFlareDnsCache remote_entries the last *)
(*                          DNS sync returned                              *)
(*   job                    the publish thread: its position and what its  *)
(*                          run did so far                                 *)
(*   runs                   the finished runs, oldest first                *)
(*   eff                    what the last operation did                    *)
(*   dirty                  a user changed the configuration since the     *)
(*                          last run finished                              *)
(*   JOB_RUNNING, JOB_RESULT  the module globals of common.py              *)
(*   ipc                    the CloudflareIPCache instance, its cache file *)
(*                          and the clock                                  *)
(*   pc, terr, trace, polled  concurrent background_publish threads: where *)
(*                          each is, the exception it carries, the stages  *)
(*                          it ran and the clause that wrote JOB_RESULT,   *)
(*                          and what get_job_result returned last          *)
(***************************************************************************)
VARIABLES store, cfg, remote, zones, ca, disk, le, files, settings, cache,
          job, runs, eff, dirty, JOB_RUNNING, JOB_RESULT, pc, terr, trace, polled,
          ipc

world == <<store, remote, ca, disk, le, files, cache>>
\* what no request and no stage writes.  The HTTP text of the generator is
\* modelled without its set_real_ip_from lines, so the requests and stages
\* leave the IP range cache alone; SpecCache exercises the cache.
fixed == <<zones, settings, ipc>>
flight == <<job, runs, dirty>>
globals == <<JOB_RUNNING, JOB_RESULT>>
threads == <<pc, terr, trace, polled>>
vars == <<store, cfg, remote, zones, ca, disk, le, files, settings, cache,
          job, runs, eff, dirty, JOB_RUNNING, JOB_RESULT, pc, terr, trace, polled,
          ipc>>


(***************************************************************************)
(* The values the model draws from.                                        *)
(***************************************************************************)
Dom == "a.io"
IP1 == "1.1.1.1"
IP2 == "2.2.2.2"

Rec(name, content, proxied, managed_by) ==
    [domain |-> Dom, name |-> name, type |-> "A", content |-> content,
     proxied |-> proxied, managed_by |-> managed_by]

\* rows a persisted database may hold when the application starts
RecUniverse ==
    {Rec("srv.direct", IP2, FALSE, "USER"), Rec("www", IP1, FALSE, "USER"),
     Rec("@", IP1, TRUE, "SYSTEM"), Rec("x", IP2, FALSE, "IMPORTED")}

Rem(name, content, proxied) ==
    [domain |-> Dom, name |-> name, type |-> "A", content |-> content, proxied |-> proxied]

\* records the provider zone may hold
RemUniverse ==
    {Rem("www.a.io", IP1, FALSE), Rem("a.io", IP1, TRUE), Rem("x.a.io", IP2, FALSE)}

Route(subdomain, protocol, path_prefix) ==
    [domain |-> Dom, subdomain |-> subdomain, protocol |-> protocol,
     path_prefix |-> path_prefix, active |-> TRUE, backend_path |-> "",
     hosts |-> <<[host |-> "10.0.0.1:80", active |-> TRUE]>>]

Client(host) == [name |-> "c1", server |-> "srv", host |-> host, is_origin |-> TRUE]

Config(auto_wildcard, use_for_direct_prefix, clients, routes) ==
    [domains |-> <<[name |-> Dom, auto_wildcard |-> auto_wildcard,
                    use_for_direct_prefix |-> use_for_direct_prefix]>>,
     routes |-> routes, clients |-> clients]

\* a site without gateway clients, one with an origin client and the
\* direct prefix, one with an origin client and automatic wildcards
CfgChoices ==
    {Config(FALSE, FALSE, <<>>, <<Route("app", "HTTP", "/")>>),
     Config(FALSE, TRUE, <<Client(IP1)>>, <<Route("app", "HTTP", "/")>>),
     Config(TRUE, FALSE, <<Client(IP1)>>, <<Route("@", "HTTP", "/")>>)}

Settings(nginx, cloudflare, letsencrypt) ==
    [ENABLE_NGINX |-> nginx, ENABLE_CLOUDFLARE |-> cloudflare,
     ENABLE_LETSENCRYPT |-> letsencrypt, LE_EMAIL |-> TRUE]

\* everything dry, live with Origin-CA certificates, live with ACME certificates
SettingsChoices ==
    {Settings(FALSE, FALSE, FALSE), Settings(TRUE, TRUE, FALSE), Settings(TRUE, TRUE, TRUE)}

\* a certificate that is about to expire, one that is not
CertDays == {CF_RENEW_SOON - 1, CF_RENEW_SOON}

FullText(c, s) == generate_http_config(c, s.ENABLE_LETSENCRYPT).text

IdleJob == [pc |-> "idle", order |-> <<>>, err |-> "", clean |-> TRUE, live |-> FALSE,
            dns_calls |-> <<>>, ca_calls |-> <<>>, http_text |-> Absent,
            stream_text |-> Absent]

NoEff == [op |-> "none"]

\* a connection the user made for the client
UserConn == [name |-> "ssh", client |-> "c1", protocol |-> "tcp", local_ip |-> LOCAL_IP,
             local_port |-> 22, remote_port |-> 22, managed_by |-> "USER"]

Store0(records) == [records |-> records, archive |-> <<>>, conns |-> <<>>, err |-> ""]

\* the database of a site with that configuration
StoreOf(c, records) ==
    [Store0(records) EXCEPT !.conns = IF c.clients = <<>> THEN <<>> ELSE <<UserConn>>]

Threads == {1, 2}


MaxRuns == 2      \* publish runs
CertbotRuns == 2  \* certbot runs whose outcome the environment decides

(***************************************************************************)
(* The four stages, each the whole call background_publish makes.          *)
(***************************************************************************)
\* NginxConfigGenerator(db, dry_run)
StageNginx(dry_run) ==
    LET n == NginxConfigGenerator(files, cfg, dry_run, settings.ENABLE_LETSENCRYPT)
    IN /\ files' = n.files
       /\ eff' = [op |-> "nginx", dry_run |-> dry_run, err |-> "",
                  nginx_writes |-> n.writes, http_text |-> n.http_text,
                  stream_text |-> n.stream_text, pre_files |-> files]
       /\ UNCHANGED <<store, remote, ca, disk, le, cache>>

\* CloudFlareManager(db, dry_run).sync()
StageDns(dry_run) ==
    \E failAt \in IF dry_run THEN {0} ELSE 0..MaxFailAt :
       LET y == sync(store, remote, cfg, zones, dry_run, failAt)
       IN /\ store' = y.st
          /\ remote' = y.remote
          /\ cache' = y.entries
          /\ eff' = [op |-> "dns", dry_run |-> dry_run, err |-> y.err, dns_calls |-> y.calls,
                     pre_store |-> store, pre_remote |-> remote]
          /\ UNCHANGED <<ca, disk, le, files>>

\* CloudFlareOriginCAManager(db, cache, dry_run).sync()
StageCa(dry_run) ==
    \E failAt \in IF dry_run THEN {0} ELSE 0..MaxFailAt, newest_last \in BOOLEAN :
       LET w == ca_sync(ca, disk, cache, zones, dry_run, failAt, newest_last)
       IN /\ ca' = w.certs
          /\ disk' = w.disk
          /\ eff' = [op |-> "ca", dry_run |-> dry_run, err |-> w.err, ca_calls |-> w.calls,
                     pre_ca |-> ca, pre_disk |-> disk, wanted |-> get_labels(cache)]
          /\ UNCHANGED <<store, remote, le, files, cache>>

\* LetsEncryptManager(db, dry_run).sync(); the constructor raises when
\* certbot is not installed
StageLe(dry_run) ==
    \E installed \in BOOLEAN,
       o \in [certbot : [1..CertbotRuns -> BOOLEAN], reload_ok : BOOLEAN, cp_ok : BOOLEAN] :
       LET z0 == [certs |-> le, files |-> files, certbot_calls |-> <<>>, reloads |-> 0,
                  err |-> "RuntimeError", fallbacks |-> <<>>]
           z == IF installed THEN le_sync(le, files, cfg, dry_run, settings.LE_EMAIL, o)
                ELSE z0
       IN /\ le' = z.certs
          /\ files' = z.files
          /\ eff' = [op |-> "le", dry_run |-> dry_run, err |-> z.err,
                     certbot_calls |-> z.certbot_calls, fallbacks |-> z.fallbacks,
                     reloads |-> z.reloads, pre_files |-> files, pre_le |-> le]
          /\ UNCHANGED <<store, remote, ca, disk, cache>>


(***************************************************************************)
(* Spec: the requests of one user and the publish thread they start.  The  *)
(* user who published is on the status page until the run has finished, so *)
(* the other requests come while no run is in progress.                    *)
(***************************************************************************)
Subsets(S, n) == {x \in SUBSET S : Cardinality(x) <= n}

ThreadsIdle ==
    /\ pc = [t \in Threads |-> "idle"]
    /\ terr = [t \in Threads |-> ""]
    /\ trace = [t \in Threads |-> <<>>]
    /\ polled = None

Init ==
    /\ cfg \in CfgChoices
    /\ store \in {StoreOf(cfg, rs) : rs \in Subsets(RecUniverse, MaxRecs)}
    /\ remote \in Subsets(RemUniverse, MaxRemote)
    /\ zones = {Dom}
    /\ settings \in SettingsChoices
    /\ ca = {} /\ disk = {} /\ le = {}
    /\ files = [http |-> Absent, stream |-> Absent, backup |-> Absent]
    /\ cache = {}
    /\ job = IdleJob /\ runs = <<>> /\ eff = NoEff /\ dirty = FALSE
    /\ JOB_RUNNING = FALSE /\ JOB_RESULT = None
    /\ ThreadsIdle
    /\ ipc = IpCache0(FALSE, NoFile)

\* views.py view_publish: propagate_changes, then the thread is started.  The
\* view reads its own copy of JOB_RUNNING, which is never written, and an
\* exception of propagate_changes ends the request before the thread starts.
\* The thread that finds a run in progress returns at once.
view_publish ==
    /\ Len(runs) < MaxRuns
    /\ \E pref \in {IP1, IP2} :
          LET s == propagate_changes(store, cfg, pref)
              starts == s.err = "" /\ job.pc = "idle"
          IN /\ store' = [s EXCEPT !.err = ""]
             /\ eff' = [op |-> "propagate", err |-> s.err, pre_store |-> store]
             /\ job' = IF starts THEN [IdleJob EXCEPT !.pc = "start", !.clean = ~dirty]
                       ELSE job
             /\ dirty' = IF starts THEN FALSE ELSE dirty
    /\ UNCHANGED <<cfg, remote, ca, disk, le, files, cache, fixed, runs, globals, threads>>

\* the thread begins: lines 48-53, then the generator
JobNginx ==
    /\ job.pc = "start"
    /\ StageNginx(~settings.ENABLE_NGINX)
    /\ JOB_RUNNING' = TRUE
    /\ job' = [job EXCEPT !.pc = "dns", !.order = Append(@, "nginx"),
                          !.live = settings.ENABLE_NGINX /\ settings.ENABLE_CLOUDFLARE,
                          !.http_text = eff'.http_text, !.stream_text = eff'.stream_text]
    /\ UNCHANGED <<cfg, fixed, runs, dirty, JOB_RESULT, threads>>

\* where the thread goes after a stage that ended with err
after_stage(stage, err) ==
    IF err # "" THEN "finish" ELSE next_stage(stage, settings.ENABLE_NGINX)

JobDns ==
    /\ job.pc = "dns"
    /\ StageDns(~settings.ENABLE_CLOUDFLARE)
    /\ job' = [job EXCEPT !.pc = after_stage("dns", eff'.err), !.err = eff'.err,
                          !.order = Append(@, "dns"), !.dns_calls = eff'.dns_calls]
    /\ UNCHANGED <<cfg, fixed, runs, dirty, globals, threads>>

JobCa ==
    /\ job.pc = "ca"
    /\ StageCa(~settings.ENABLE_CLOUDFLARE)
    /\ job' = [job EXCEPT !.pc = after_stage("ca", eff'.err), !.err = eff'.err,
                          !.order = Append(@, "ca"), !.ca_calls = eff'.ca_calls]
    /\ UNCHANGED <<cfg, fixed, runs, dirty, globals, threads>>

JobLe ==
    /\ job.pc = "le"
    /\ StageLe(~settings.ENABLE_LETSENCRYPT)
    /\ job' = [job EXCEPT !.pc = after_stage("le", eff'.err), !.err = eff'.err,
                          !.order = Append(@, "le")]
    /\ UNCHANGED <<cfg, fixed, runs, dirty, globals, threads>>

\* lines 77-82: subprocess.run(NGINX_RELOAD_CMD, check=True)
JobReload ==
    /\ job.pc = "reload"
    /\ \E ok \in BOOLEAN :
          /\ eff' = [op |-> "reload", err |-> IF ok THEN "" ELSE "CalledProcessError"]
          /\ job' = [job EXCEPT !.pc = "finish", !.err = eff'.err,
                                !.order = Append(@, "reload")]
    /\ UNCHANGED <<world, cfg, fixed, runs, dirty, globals, threads>>

\* lines 84-93
JobFinish ==
    /\ job.pc \in {"finish", "result"}
    /\ JOB_RESULT' = job_result_of(job.err)
    /\ JOB_RUNNING' = FALSE
    /\ runs' = Append(runs, [job EXCEPT !.pc = "done", !.clean = job.clean /\ ~dirty])
    /\ job' = IdleJob
    /\ eff' = [op |-> "finish", err |-> job.err]
    /\ UNCHANGED <<world, cfg, fixed, dirty, threads>>

\* views.py edit_dns_record: only a USER record is edited
edit_dns_record ==
    /\ job.pc = "idle" /\ Len(runs) < MaxRuns
    /\ Len(store.archive) < MaxArchive
    /\ \E rec \in store.records, content \in {IP1, IP2} :
          /\ rec.managed_by = "USER"
          /\ LET s == DnsRecordRepo_update(store, rec, [rec EXCEPT !.content = content])
             IN /\ store' = [s EXCEPT !.err = ""]
                /\ eff' = [op |-> "request", err |-> s.err]
    /\ dirty' = TRUE
    /\ UNCHANGED <<cfg, remote, ca, disk, le, files, cache, fixed, job, runs, globals, threads>>

\* views.py delete_dns_record
delete_dns_record ==
    /\ job.pc = "idle" /\ Len(runs) < MaxRuns
    /\ Len(store.archive) < MaxArchive
    /\ \E rec \in store.records :
          /\ store' = DnsRecordRepo_delete(store, rec)
          /\ eff' = [op |-> "request", err |-> ""]
    /\ dirty' = TRUE
    /\ UNCHANGED <<cfg, remote, ca, disk, le, files, cache, fixed, job, runs, globals, threads>>

\* views.py create_dns_record: managed_by is a field of the form
create_dns_record ==
    /\ job.pc = "idle" /\ Len(runs) < MaxRuns
    /\ \E content \in {IP1, IP2}, managed_by \in ManagedBy :
          LET s == DnsRecordRepo_create(store, Rec("new", content, FALSE, managed_by))
          IN /\ store' = [s EXCEPT !.err = ""]
             /\ eff' = [op |-> "request", err |-> s.err]
    /\ dirty' = TRUE
    /\ UNCHANGED <<cfg, remote, ca, disk, le, files, cache, fixed, job, runs, globals, threads>>

\* views.py update_proxy_server: the server's host is set, then
\* propagate_changes runs inside the view's try block
update_proxy_server ==
    /\ job.pc = "idle" /\ Len(runs) < MaxRuns
    /\ Len(store.archive) < MaxArchive
    /\ cfg.clients # <<>>
    /\ \E host \in {IP1, IP2}, pref \in {IP1, IP2} :
          LET c == [cfg EXCEPT !.clients = [i \in 1..Len(cfg.clients) |->
                                              [cfg.clients[i] EXCEPT !.host = host]]]
              s == propagate_changes(store, c, pref)
          IN /\ cfg' = c
             /\ store' = [s EXCEPT !.err = ""]
             /\ eff' = [op |-> "propagate", err |-> s.err, pre_store |-> store]
             /\ dirty' = (dirty \/ c # cfg)
    /\ UNCHANGED <<remote, ca, disk, le, files, cache, fixed, job, runs, globals, threads>>

Next ==
    \/ view_publish
    \/ JobNginx
    \/ JobDns
    \/ JobCa
    \/ JobLe
    \/ JobReload
    \/ JobFinish
    \/ edit_dns_record
    \/ delete_dns_record
    \/ create_dns_record
    \/ update_proxy_server

Spec == Init /\ [][Next]_vars


(***************************************************************************)
(* SpecStage: each stage class called on its own, with dry_run and the     *)
(* state it works on drawn from small sets.  The Origin-CA manager gets    *)
(* the cache of a DNS sync that ran before it.                             *)
(***************************************************************************)
CaCert(id, label, days) == [id |-> id, label |-> label, days |-> days]

\* certificates the CA may hold: for the apex, expiring or not, a second
\* one for the same hostnames, and one for hostnames nothing wants
CaUniverse ==
    {CaCert(1, Dom, CF_RENEW_SOON - 1), CaCert(1, Dom, CF_RENEW_SOON),
     CaCert(2, Dom, CF_CERT_DAYS), CaCert(3, "b." \o Dom, CF_CERT_DAYS)}

CaChoices == {c \in Subsets(CaUniverse, 2) : \A x, y \in c : x.id = y.id => x = y}

DiskChoices == {{}, {<<Dom, "fullchain.pem">>, <<Dom, "privkey.pem">>}}

LeChoices ==
    {{}} \cup {{[domain |-> Dom, days |-> d, names |-> ns]} :
                 d \in {LE_RENEW_SOON, LE_RENEW_SOON + 1}, ns \in {{Dom}, {"app." \o Dom}}}

MaxRoutes == 3

\* routes of one site: two of the same subdomain with different path
\* prefixes, a stream route and an inactive route of that subdomain, a
\* redirect of another subdomain and a stream route of a third subdomain
\* on the port of the first
RouteUniverse ==
    {Route("api", "HTTP", "/"), Route("api", "HTTPS", "/v1"),
     Route("api", "STREAM", "/5000"), Route("www", "REDIRECT", "/"),
     [Route("api", "HTTP", "/old") EXCEPT !.active = FALSE],
     Route("db", "STREAM", "/5000")}

\* the gateway clients of a site: none, an origin, an origin and a client
\* that is no origin
ClientChoices ==
    {<<>>, <<Client(IP1)>>,
     <<Client(IP1), [name |-> "c2", server |-> "edge", host |-> IP2, is_origin |-> FALSE]>>}

\* the route tables of up to MaxRoutes different routes, in any order
RouteChoices ==
    {rs \in UNION {[1..n -> RouteUniverse] : n \in 0..MaxRoutes} :
        \A i, j \in 1..Len(rs) : rs[i] = rs[j] => i = j}

ArchiveChoices == {<<>>, <<from_dns_record(Rec("www", IP1, FALSE, "USER"))>>}

\* a site with a second domain
Dom2 == "b.io"

Config2 ==
    [Config(FALSE, FALSE, <<>>, <<Route("app", "HTTP", "/")>>) EXCEPT
        !.domains = @ \o <<[name |-> Dom2, auto_wildcard |-> FALSE,
                            use_for_direct_prefix |-> FALSE]>>]

\* its rows: the record www of either domain, the first proxied or not
RecUniverse2 ==
    {Rec("www", IP1, FALSE, "USER"), Rec("www", IP1, TRUE, "USER"),
     [Rec("www", IP1, FALSE, "USER") EXCEPT !.domain = Dom2]}

\* the stores over these rows that respect uq_dns_key, with no archive row
\* or the archive row of one of the records
StoreChoices2 ==
    {[Store0(rs) EXCEPT !.archive = a] :
        rs \in {x \in SUBSET RecUniverse2 : \A r1, r2 \in x : uq_dns_key(r1) = uq_dns_key(r2) => r1 = r2},
        a \in {<<>>} \cup {<<from_dns_record(r)>> : r \in RecUniverse2}}

\* the provider holds each record once, proxied or not
RemoteChoices2 ==
    {x \in SUBSET {Rem("www.a.io", IP1, FALSE), Rem("www.a.io", IP1, TRUE),
                   [Rem("www.b.io", IP1, FALSE) EXCEPT !.domain = Dom2]} :
        \A r1, r2 \in x : uq_dns_key(r1) = uq_dns_key(r2) => r1 = r2}

NoFiles == [http |-> Absent, stream |-> Absent, backup |-> Absent]

\* sites of an auto_wildcard domain with a route two labels deep, active or
\* not, alone or beside a route one label deep
MultiLevelChoices ==
    {Config(TRUE, FALSE, cs, rs) :
        cs \in {<<>>, <<Client(IP1)>>},
        rs \in {<<Route("x.y", "HTTP", "/")>>,
                <<[Route("x.y", "HTTP", "/") EXCEPT !.active = FALSE]>>,
                <<Route("app", "HTTP", "/"),
                  [Route("x.y", "HTTP", "/") EXCEPT !.active = FALSE]>>}}

\* a target that is switched off
Down == [host |-> "10.0.0.9:80", active |-> FALSE]

\* routes whose targets are switched off, missing, or mixed
DownRouteUniverse ==
    {[Route("api", "HTTP", "/") EXCEPT !.hosts = <<Down>>],
     [Route("api", "HTTPS", "/v1") EXCEPT !.hosts = <<>>],
     [Route("api", "HTTP", "/mix") EXCEPT !.hosts = <<Down, [host |-> "10.0.0.1:80", active |-> TRUE]>>],
     [Route("www", "REDIRECT", "/") EXCEPT !.hosts = <<Down>>],
     [Route("www", "REDIRECT", "/r") EXCEPT !.hosts = <<>>],
     [Route("db", "STREAM", "/5000") EXCEPT !.hosts = <<Down>>],
     [Route("db", "STREAM", "/5001") EXCEPT !.active = FALSE],
     Route("app", "HTTP", "/")}

\* the route tables of one or two of them
DownRouteChoices ==
    {<<r>> : r \in DownRouteUniverse}
       \cup {rs \in [1..2 -> DownRouteUniverse] : rs[1] # rs[2]}

InitStage ==
    /\ settings = Settings(TRUE, TRUE, TRUE)
    /\ \/ /\ cfg = Config(FALSE, FALSE, <<>>, <<Route("app", "HTTP", "/")>>)
          /\ zones \in {{Dom}, {}}
          /\ store \in {[Store0(rs) EXCEPT !.archive = a] :
                           rs \in Subsets(RecUniverse, MaxRecs), a \in ArchiveChoices}
          /\ remote \in Subsets(RemUniverse, MaxRemote)
          /\ ca \in CaChoices
          /\ disk \in DiskChoices
          /\ le = {} /\ files = NoFiles
       \/ /\ cfg \in CfgChoices
          /\ zones \in {{Dom}, {}}
          /\ store = Store0({}) /\ remote = {} /\ ca = {} /\ disk = {}
          /\ le \in LeChoices
          /\ files \in {NoFiles, [NoFiles EXCEPT !.http = FullText(cfg, settings)]}
       \/ /\ cfg \in {Config(FALSE, FALSE, cs, rs) : cs \in ClientChoices, rs \in RouteChoices}
          /\ zones \in {{Dom}, {}}
          /\ store = Store0({}) /\ remote = {} /\ ca = {} /\ disk = {}
          /\ le = {} /\ files = NoFiles
       \/ /\ cfg \in MultiLevelChoices
          /\ zones = {Dom}
          /\ store \in {Store0({}), Store0({Rec("*.y", IP1, FALSE, "USER")})}
          /\ remote = {} /\ ca = {} /\ disk = {} /\ le = {} /\ files = NoFiles
       \/ /\ cfg \in {Config(FALSE, FALSE, <<>>, rs) : rs \in DownRouteChoices}
          /\ zones = {Dom}
          /\ store = Store0({}) /\ remote = {} /\ ca = {} /\ disk = {}
          /\ le = {} /\ files = NoFiles
       \/ /\ cfg = Config2
          /\ zones = {Dom, Dom2}
          /\ store \in StoreChoices2
          /\ remote \in RemoteChoices2
          /\ ca = {} /\ disk = {} /\ le = {} /\ files = NoFiles
    /\ cache = {}
    /\ job = IdleJob /\ runs = <<>> /\ eff = NoEff /\ dirty = FALSE
    /\ JOB_RUNNING = FALSE /\ JOB_RESULT = None
    /\ ThreadsIdle
    /\ ipc = IpCache0(FALSE, NoFile)

Harness == UNCHANGED <<cfg, fixed, flight, globals, threads>>

NginxAlone == \E dry_run \in BOOLEAN : eff.op = "none" /\ StageNginx(dry_run) /\ Harness

\* a sync, or a live sync after a dry one
DnsAlone ==
    \E dry_run \in BOOLEAN :
       /\ eff.op = "none" \/ (eff.op = "dns" /\ eff.dry_run /\ ~dry_run)
       /\ StageDns(dry_run)
       /\ Harness

CaAlone == \E dry_run \in BOOLEAN : eff.op = "dns" /\ eff.err = "" /\ StageCa(dry_run) /\ Harness

LeAlone == \E dry_run \in BOOLEAN : eff.op = "none" /\ StageLe(dry_run) /\ Harness

\* propagate_changes(db) on its own
PropagateAlone ==
    /\ eff.op = "none"
    /\ \E pref \in {IP1, IP2} :
          LET s == propagate_changes(store, cfg, pref)
          IN /\ store' = [s EXCEPT !.err = ""]
             /\ eff' = [op |-> "propagate", err |-> s.err, pre_store |-> store]
    /\ UNCHANGED <<remote, ca, disk, le, files, cache>>
    /\ Harness

\* the domain names a form can name
DomainNames == {cfg.domains[i].name : i \in 1..Len(cfg.domains)}

\* views.py create_dns_record on its own
CreateAlone ==
    /\ eff.op = "none"
    /\ \E domain \in DomainNames, content \in {IP1, IP2}, proxied \in BOOLEAN :
          LET rec == [Rec("www", content, proxied, "USER") EXCEPT !.domain = domain]
              s == DnsRecordRepo_create(store, rec)
          IN /\ store' = [s EXCEPT !.err = ""]
             /\ eff' = [op |-> "create", err |-> s.err, new |-> rec, pre_store |-> store]
    /\ UNCHANGED <<remote, ca, disk, le, files, cache>>
    /\ Harness

\* views.py edit_dns_record on its own: the form names the domain, the
\* content and the proxied checkbox
EditAlone ==
    /\ eff.op = "none"
    /\ \E old \in store.records, domain \in DomainNames, content \in {IP1, IP2},
          proxied \in BOOLEAN :
          LET new == [old EXCEPT !.domain = domain, !.content = content, !.proxied = proxied]
              s == DnsRecordRepo_update(store, old, new)
          IN /\ old.managed_by = "USER"
             /\ store' = [s EXCEPT !.err = ""]
             /\ eff' = [op |-> "edit", err |-> s.err, old |-> old, new |-> new,
                        pre_store |-> store]
    /\ UNCHANGED <<remote, ca, disk, le, files, cache>>
    /\ Harness

\* views.py delete_dns_record on its own
DeleteAlone ==
    /\ eff.op = "none"
    /\ \E old \in store.records :
          /\ store' = DnsRecordRepo_delete(store, old)
          /\ eff' = [op |-> "delete", err |-> "", old |-> old, pre_store |-> store]
    /\ UNCHANGED <<remote, ca, disk, le, files, cache>>
    /\ Harness

\* views.py edit_domain with action "delete" on its own
DeleteDomainAlone ==
    /\ eff.op = "none"
    /\ \E domain \in DomainNames, pref \in {IP1, IP2} :
          LET deleted == ~exists_with_domain_id(cfg, domain)
              s1 == IF deleted THEN DnsRecordRepo_delete_all_with_domain_id(store, domain)
                    ELSE store
              c1 == IF deleted THEN DomainRepo_delete(cfg, domain) ELSE cfg
              s2 == propagate_changes(s1, c1, pref)
          IN /\ cfg' = c1
             /\ store' = [s2 EXCEPT !.err = ""]
             /\ eff' = [op |-> "delete_domain", err |-> s2.err, domain |-> domain,
                        deleted |-> deleted, pre_store |-> store]
    /\ UNCHANGED <<remote, ca, disk, le, files, cache>>
    /\ UNCHANGED <<fixed, flight, globals, threads>>

\* a live sync after one of these requests
SyncAfterRequest ==
    /\ eff.op \in {"create", "edit", "delete", "delete_domain"}
    /\ \E failAt \in 0..1 :
          LET y == sync(store, remote, cfg, zones, FALSE, failAt)
          IN /\ store' = y.st
             /\ remote' = y.remote
             /\ cache' = y.entries
             /\ eff' = [op |-> "dns", dry_run |-> FALSE, err |-> y.err,
                        dns_calls |-> y.calls, pre_store |-> store, pre_remote |-> remote,
                        request |-> eff]
    /\ UNCHANGED <<ca, disk, le, files>>
    /\ Harness

NextStage ==
    \/ NginxAlone \/ DnsAlone \/ CaAlone \/ LeAlone \/ PropagateAlone
    \/ CreateAlone \/ EditAlone \/ DeleteAlone \/ DeleteDomainAlone \/ SyncAfterRequest

SpecStage == InitStage /\ [][NextStage]_vars

(***************************************************************************)
(* SpecJob: background_publish run by concurrent threads, statement by     *)
(* statement.  Each request of view_publish starts one thread; a stage     *)
(* either returns or raises.                                               *)
(***************************************************************************)
Stages == {StageOrder[i] : i \in 1..Len(StageOrder)}

\* a body without the except clause: the exception leaves the function
uncaught(stage) == "raised"

\* where an exception raised inside the try block of lines 56-84 lands
on_exception(stage) == "except"

InitJob ==
    /\ settings \in SettingsChoices
    /\ cfg = Config(FALSE, FALSE, <<>>, <<>>)
    /\ zones = {Dom}
    /\ store = Store0({}) /\ remote = {} /\ ca = {} /\ disk = {} /\ le = {}
    /\ files = NoFiles /\ cache = {}
    /\ job = IdleJob /\ runs = <<>> /\ eff = NoEff /\ dirty = FALSE
    /\ JOB_RUNNING = FALSE /\ JOB_RESULT = None
    /\ ThreadsIdle
    /\ ipc = IpCache0(FALSE, NoFile)

Rest == UNCHANGED <<world, cfg, fixed, flight, eff>>

\* threading.Thread(target=background_publish).start()
Trigger(t) ==
    /\ pc[t] = "idle"
    /\ pc' = [pc EXCEPT ![t] = "check"]
    /\ trace' = [trace EXCEPT ![t] = <<>>]
    /\ UNCHANGED <<terr, polled, globals>> /\ Rest

\* line 48: if JOB_RUNNING: return
Check(t) ==
    /\ pc[t] = "check"
    /\ pc' = [pc EXCEPT ![t] = IF JOB_RUNNING THEN "idle" ELSE "set"]
    /\ UNCHANGED <<terr, trace, polled, globals>> /\ Rest

\* lines 52-54: the print, then JOB_RUNNING = True
SetRunning(t) ==
    /\ pc[t] = "set"
    /\ JOB_RUNNING' = TRUE
    /\ pc' = [pc EXCEPT ![t] = StageOrder[1]]
    /\ UNCHANGED <<terr, trace, polled, JOB_RESULT>> /\ Rest

\* lines 57-82: one stage returns or raises
Stage(t) ==
    /\ pc[t] \in Stages
    /\ trace' = [trace EXCEPT ![t] = Append(@, pc[t])]
    /\ \E ok \in BOOLEAN :
          /\ pc' = [pc EXCEPT ![t] = IF ok THEN next_stage(pc[t], settings.ENABLE_NGINX)
                                     ELSE on_exception(pc[t])]
          /\ terr' = [terr EXCEPT ![t] = IF ok THEN "" ELSE "error in " \o pc[t]]
    /\ UNCHANGED <<polled, globals>> /\ Rest

\* line 84
Result(t) ==
    /\ pc[t] = "result"
    /\ JOB_RESULT' = JOB_OK
    /\ pc' = [pc EXCEPT ![t] = "finally"]
    /\ trace' = [trace EXCEPT ![t] = Append(@, "result")]
    /\ UNCHANGED <<terr, polled, JOB_RUNNING>> /\ Rest

\* lines 86-89
Except(t) ==
    /\ pc[t] = "except"
    /\ JOB_RESULT' = JOB_FAILED(terr[t])
    /\ pc' = [pc EXCEPT ![t] = "finally"]
    /\ trace' = [trace EXCEPT ![t] = Append(@, "except")]
    /\ UNCHANGED <<terr, polled, JOB_RUNNING>> /\ Rest

\* lines 91-93
Finally(t) ==
    /\ pc[t] = "finally"
    /\ JOB_RUNNING' = FALSE
    /\ pc' = [pc EXCEPT ![t] = "idle"]
    /\ UNCHANGED <<terr, trace, polled, JOB_RESULT>> /\ Rest

\* get_job_result, called by view_publish_status
get_job_result ==
    /\ polled' = IF JOB_RUNNING THEN None ELSE JOB_RESULT
    /\ JOB_RESULT' = IF JOB_RUNNING THEN JOB_RESULT ELSE None
    /\ UNCHANGED <<pc, terr, trace, JOB_RUNNING>> /\ Rest

NextJob ==
    \/ \E t \in Threads : Trigger(t)
    \/ \E t \in Threads : Check(t)
    \/ \E t \in Threads : SetRunning(t)
    \/ \E t \in Threads : Stage(t)
    \/ \E t \in Threads : Result(t)
    \/ \E t \in Threads : Except(t)
    \/ \E t \in Threads : Finally(t)
    \/ get_job_result

SpecJob == InitJob /\ [][NextJob]_vars


(***************************************************************************)
(* SpecCache: calls of CloudflareIPCache.get on one instance while time    *)
(* passes and the requests to the provider succeed or fail.                *)
(***************************************************************************)
\* a cache file written earlier, stale when the instance is built
OldFile == [fetched_at |-> 0, ipv4 |-> <<"103.21.244.0/22">>, ipv6 |-> <<"2606:4700::/32">>]

InitCache ==
    /\ ipc \in {IpCache0(cache_path, file) :
                  cache_path \in BOOLEAN, file \in {NoFile, OldFile}}
    /\ settings = Settings(FALSE, FALSE, FALSE)
    /\ cfg = Config(FALSE, FALSE, <<>>, <<>>)
    /\ zones = {Dom}
    /\ store = Store0({}) /\ remote = {} /\ ca = {} /\ disk = {} /\ le = {}
    /\ files = NoFiles /\ cache = {}
    /\ job = IdleJob /\ runs = <<>> /\ eff = NoEff /\ dirty = FALSE
    /\ JOB_RUNNING = FALSE /\ JOB_RESULT = None
    /\ ThreadsIdle

\* cloudflare_ip_cache.get(force_refresh)
IpGet ==
    /\ \E force_refresh, ok4, ok6, write_ok \in BOOLEAN :
          LET g == CloudflareIPCache_get(ipc, force_refresh, ok4, ok6, write_ok)
          IN /\ ipc' = g.c
             /\ eff' = [op |-> "ipget", force_refresh |-> force_refresh,
                        fetched |-> g.fetched, failed |-> g.fetched /\ ~ok4 /\ ~ok6,
                        ret |-> g.ret, pre |-> ipc]
    /\ UNCHANGED <<world, cfg, zones, settings, flight, globals, threads>>

\* time.time() moves on
IpTick ==
    /\ ipc.now < MaxNow
    /\ ipc' = [ipc EXCEPT !.now = @ + 1]
    /\ UNCHANGED <<world, cfg, zones, settings, flight, globals, threads, eff>>

NextCache == IpGet \/ IpTick

SpecCache == InitCache /\ [][NextCache]_vars


(***************************************************************************)
(* The wildcard manager of core/cloudflare.py, CloudFlareWildcardManager,  *)
(* and SpecWild: calls of sync_wildcards on the zone of one domain.        *)
(*                                                                         *)
(* The zone is the set remote of provider records; a record id stands for  *)
(* its record.  proxy_map is [http, stream], each the set of the keys of   *)
(* that kind; ips is the list origin_ips.  A run is the record w:          *)
(* w.remote, w.calls the provider calls in order, w.err.                   *)
(***************************************************************************)
IP6 == "2001:db8::1"

\* ipaddress.ip_address(ip).version
ip_version(ip) == IF \E i \in 1..Len(ip) : SubSeq(ip, i, i) = ":" THEN 6 ELSE 4

RECURSIVE parent_labels(_)
\* ".".join(parts[i:]) for i in range(1, len(parts))
parent_labels(sub) ==
    IF count_dots(sub) = 0 THEN {}
    ELSE {after_first_dot(sub)} \cup parent_labels(after_first_dot(sub))

\* CloudFlareWildcardManager._first_labels_requiring_wildcard
first_labels_requiring_wildcard(proxy_map) ==
    LET subs == {s \in proxy_map.http \cup proxy_map.stream : s \notin {"@", ""}}
    IN UNION {parent_labels(s) : s \in subs} \cup (IF subs # {} THEN {""} ELSE {})

NoLabel == "<no wildcard>"

\* the label _records_by_label files a record under, NoLabel when it skips it
label_of_record(rec, domain) ==
    IF rec.type \notin {"A", "AAAA"} THEN NoLabel
    ELSE IF rec.name = "*." \o domain THEN ""
    ELSE IF StartsWith(rec.name, "*.") /\ EndsWith(rec.name, "." \o domain)
    THEN SubSeq(rec.name, 3, Len(rec.name) - Len(domain) - 1)
    ELSE NoLabel

\* CloudFlareWildcardManager._records_by_label: label -> its records
records_by_label(records, domain) ==
    [l \in {label_of_record(r, domain) : r \in records} \ {NoLabel} |->
        {r \in records : label_of_record(r, domain) = l}]

RECURSIVE provider_calls(_, _, _)
\* cf.dns.records.create / delete one after the other; the failAt-th raises
provider_calls(w, calls, failAt) ==
    IF w.err # "" \/ calls = <<>> THEN w
    ELSE LET c == Head(calls)
         IN provider_calls(
               IF failAt # 0 /\ Len(w.calls) + 1 = failAt THEN [w EXCEPT !.err = "APIError"]
               ELSE [w EXCEPT !.remote = IF c.op = "create" THEN @ \cup {c.rec} ELSE @ \ {c.rec},
                              !.calls = Append(@, c)],
               Tail(calls), failAt)

\* CloudFlareWildcardManager._ensure_records
ensure_records(w, domain, fqdn, rtype, want_set, have_entry, proxied, failAt) ==
    LET have_set == {r.content : r \in {x \in have_entry : x.type = rtype}}
        missing == SetToSeq(want_set \ have_set)
        extra == SetToSeq({r \in have_entry : r.type = rtype /\ r.content \notin want_set})
        creates == [i \in 1..Len(missing) |->
                      [op |-> "create",
                       rec |-> [domain |-> domain, name |-> fqdn, type |-> rtype,
                                content |-> missing[i], proxied |-> proxied]]]
        deletes == [i \in 1..Len(extra) |-> [op |-> "delete", rec |-> extra[i]]]
    IN provider_calls(w, creates \o deletes, failAt)

\* lines 218-228: the AAAA records are looked at only when want_v6 is not empty
ensure_aaaa(w, domain, fqdn, want_v6, have_entry, proxied, failAt) ==
    IF want_v6 # {}
    THEN ensure_records(w, domain, fqdn, "AAAA", want_v6, have_entry, proxied, failAt)
    ELSE w

\* the name of the wildcard of a label
wildcard_fqdn(label, domain) ==
    IF label = "" THEN "*." \o domain ELSE "*." \o label \o "." \o domain

RECURSIVE wanted_loop(_, _, _, _, _, _, _, _)
\* the loop over want_labels, lines 201-228
wanted_loop(w, domain, labels, have, want_v4, want_v6, proxied, failAt) ==
    IF w.err # "" \/ labels = <<>> THEN w
    ELSE LET label == Head(labels)
             fqdn == wildcard_fqdn(label, domain)
             have_entry == IF label \in DOMAIN have THEN have[label] ELSE {}
             w4 == ensure_records(w, domain, fqdn, "A", want_v4, have_entry, proxied, failAt)
             w6 == IF w4.err # "" THEN w4
                   ELSE ensure_aaaa(w4, domain, fqdn, want_v6, have_entry, proxied, failAt)
         IN wanted_loop(w6, domain, Tail(labels), have, want_v4, want_v6, proxied, failAt)

\* CloudFlareWildcardManager.sync_wildcards
sync_wildcards(records, domain, proxy_map, ips, proxied, failAt) ==
    LET want_labels == first_labels_requiring_wildcard(proxy_map)
        have == records_by_label(records, domain)
        want_v4 == {ip \in Range(ips) : ip_version(ip) = 4}
        want_v6 == {ip \in Range(ips) : ip_version(ip) = 6}
        w0 == [remote |-> records, calls |-> <<>>, err |-> ""]
        w1 == wanted_loop(w0, domain, SetToSeq(want_labels), have, want_v4, want_v6,
                          proxied, failAt)
        obsolete == SetToSeq(UNION {have[l] : l \in DOMAIN have \ want_labels})
    IN provider_calls(w1, [i \in 1..Len(obsolete) |-> [op |-> "delete", rec |-> obsolete[i]]],
                      failAt)

\* the records a zone may hold: wildcards of the root and of a label, of
\* both families, and a record that is no wildcard
WildUniverse ==
    {Rem(n, c, TRUE) : n \in {"*.a.io", "*.y.a.io"}, c \in {IP1, IP2}}
      \cup {[Rem(n, IP6, TRUE) EXCEPT !.type = "AAAA"] : n \in {"*.a.io", "*.y.a.io"}}
      \cup {Rem("www.a.io", IP1, FALSE)}

\* the dashboard states: no route, a depth-1 host, a deeper host, the root
ProxyMaps ==
    {[http |-> h, stream |-> s] :
        h \in {{}, {"app"}, {"x.y"}, {"@"}}, s \in {{}, {"db"}}}

OriginIps == {<<>>, <<IP1>>, <<IP2>>, <<IP1, IP6>>}

InitWild ==
    /\ remote \in SUBSET WildUniverse
    /\ settings = Settings(FALSE, FALSE, FALSE)
    /\ cfg = Config(FALSE, FALSE, <<>>, <<>>)
    /\ zones = {Dom}
    /\ store = Store0({}) /\ ca = {} /\ disk = {} /\ le = {}
    /\ files = NoFiles /\ cache = {}
    /\ job = IdleJob /\ runs = <<>> /\ eff = NoEff /\ dirty = FALSE
    /\ JOB_RUNNING = FALSE /\ JOB_RESULT = None
    /\ ThreadsIdle
    /\ ipc = IpCache0(FALSE, NoFile)

\* CloudFlareWildcardManager(cf, zone_id, domain).sync_wildcards(proxy_map, origin_ips)
SyncWildcards ==
    /\ \E proxy_map \in ProxyMaps, origin \in OriginIps, failAt \in 0..1 :
          LET w == sync_wildcards(remote, Dom, proxy_map, origin, TRUE, failAt)
          IN /\ remote' = w.remote
             /\ eff' = [op |-> "wildcards", err |-> w.err, proxy_map |-> proxy_map,
                        origin_ips |-> origin, wild_calls |-> w.calls, pre_remote |-> remote]
    /\ UNCHANGED <<store, ca, disk, le, files, cache>>
    /\ UNCHANGED <<cfg, fixed, flight, globals, threads>>

NextWild == SyncWildcards

SpecWild == InitWild /\ [][NextWild]_vars


(***************************************************************************)
(* The properties.                                                         *)
(***************************************************************************)
\* a thread is inside the pipeline body from the statement that sets
\* JOB_RUNNING until its finally block has run
InBody(t) == pc[t] \in Stages \cup {"result", "except", "finally"}

\* C1: single-flight.  Under every interleaving of concurrent
\* background_publish invocations at most one of them is inside the pipeline
\* body at any time.
C1_SingleFlight == Cardinality({t \in Threads : InBody(t)}) <= 1

\* C2: whenever the ACME manager wrote the HTTP-only configuration over an
\* nginx HTTP config file, the file holds its content of before the fallback
\* again when _create_certificate is left, whether the retried certbot run
\* succeeded or failed.
C2_FallbackRestored ==
    eff.op = "le" =>
       \A i \in 1..Len(eff.fallbacks) :
          (eff.fallbacks[i].written /\ eff.fallbacks[i].before # Absent)
             => eff.fallbacks[i].after = eff.fallbacks[i].before

\* C3: propagate_changes leaves every USER row as it was: each DnsRecord and
\* each GatewayConnection with managed_by USER before the call is there after
\* it with the same values and owner.
C3_UserRowsKept ==
    eff.op = "propagate" =>
       /\ \A r \in eff.pre_store.records : r.managed_by = "USER" => r \in store.records
       /\ SelectSeq(eff.pre_store.conns, LAMBDA c : c.managed_by = "USER")
            = SelectSeq(store.conns, LAMBDA c : c.managed_by = "USER")


\* the comparison tuples of a DNS sync: what was there when it started and
\* what it asked the provider to do
RemKey(r) == <<r.domain, r.name, r.type, r.content, r.proxied>>

SyncL == {SharedKey(e) : e \in sync_local_entries(eff.pre_store)}

SyncA == {SharedKey(e) : e \in sync_local_archived(eff.pre_store)}

SyncR == {RemKey(r) : r \in eff.pre_remote}

CallsOf(op) == SelectSeq(eff.dns_calls, LAMBDA c : c.op = op)

CallKeys(op) == {RemKey(c.rec) : c \in Range(CallsOf(op))}

LiveSyncDone == eff.op = "dns" /\ ~eff.dry_run /\ eff.err = ""

\* C4: a live DNS sync that started with local records L, archive A and
\* provider content R issues one provider create for each tuple of L that
\* is not in R and for no other, and one provider delete for each tuple of
\* R that matches a USER or SYSTEM archive row and for no other.
C4_DiffExact ==
    LiveSyncDone =>
       /\ CallKeys("create") = SyncL \ SyncR
       /\ Len(CallsOf("create")) = Cardinality(SyncL \ SyncR)
       /\ CallKeys("delete") = SyncR \cap SyncA
       /\ Len(CallsOf("delete")) = Cardinality(SyncR \cap SyncA)


\* two publish runs in live mode, both without error, with no change of the
\* configuration between them
TwoQuietRuns ==
    /\ Len(runs) = 2
    /\ runs[1].live /\ runs[2].live
    /\ runs[1].err = "" /\ runs[2].err = ""
    /\ runs[2].clean

C6_ImportedMirrored ==
    eff.op = "dns" =>
       /\ CallKeys("delete") \subseteq SyncA
       /\ \A r \in eff.pre_remote :
             RemKey(r) \notin SyncL \cup SyncA =>
                /\ r \in remote
                /\ \E rec \in store.records :
                      /\ rec.managed_by = "IMPORTED"
                      /\ SharedKey(get_shared_record_from_db(rec)) = RemKey(r)

\* C7: a stage called with dry_run changes nothing outside: the DNS sync
\* issues no provider create or delete, the Origin-CA sync issues no CA
\* create or revoke and writes no certificate file, the ACME manager does
\* not run certbot, the nginx generator writes neither config file.
C7_DryRunNoEffect ==
    (eff.op \in {"dns", "ca", "le", "nginx"} /\ eff.dry_run) =>
       /\ eff.op = "dns" => eff.dns_calls = <<>> /\ remote = eff.pre_remote
       /\ eff.op = "ca" => eff.ca_calls = <<>> /\ ca = eff.pre_ca /\ disk = eff.pre_disk
       /\ eff.op = "le" => eff.certbot_calls = <<>>
       /\ eff.op = "nginx" => eff.nginx_writes = 0 /\ files = eff.pre_files

\* a dry Origin-CA sync that found a wanted label without a certificate
C7_Witness ==
    /\ eff.op = "ca" /\ eff.dry_run
    /\ \E d \in DOMAIN eff.wanted : \E l \in eff.wanted[d] : \A c \in ca : c.label # l

\* C8: a dry-run DNS sync leaves the pending deletions: the USER and SYSTEM
\* archive rows that exist before it exist after it.
C8_DryRunKeepsArchive ==
    (eff.op = "dns" /\ eff.dry_run /\ eff.err = "") =>
       \A i \in 1..Len(eff.pre_store.archive) :
          eff.pre_store.archive[i].managed_by # "IMPORTED" =>
             \E j \in 1..Len(store.archive) : store.archive[j] = eff.pre_store.archive[i]

\* C9: background_publish never raises.  An exception of a stage reaches the
\* except clause, which stores the failure string in JOB_RESULT, and every
\* run ends in the finally block with JOB_RESULT written by that run and
\* JOB_RUNNING false.
C9_NeverRaises ==
    [][\A t \in Threads :
          /\ pc'[t] # "raised"
          /\ (pc[t] \in Stages /\ pc'[t] \notin Stages \cup {"result"}) =>
                pc'[t] = "except" /\ terr'[t] # ""
          /\ (pc[t] = "except" /\ pc'[t] # "except") =>
                JOB_RESULT' = "Publish job failed: " \o terr[t]
          /\ (pc[t] = "finally" /\ pc'[t] # "finally") =>
                /\ ~JOB_RUNNING'
                /\ trace[t] # <<>>
                /\ trace[t][Len(trace[t])] \in {"result", "except"}
          /\ (InBody(t) /\ pc'[t] = "idle") => pc[t] = "finally"]_vars

\* a run that failed in a stage has ended: the flag is down and JOB_RESULT
\* holds its failure string
C9_Witness ==
    \E t \in Threads :
       /\ pc[t] = "idle" /\ terr[t] # ""
       /\ trace[t] # <<>> /\ trace[t][Len(trace[t])] = "except"
       /\ ~JOB_RUNNING
       /\ JOB_RESULT = "Publish job failed: " \o terr[t]

\* the stages of a thread's trace
StagesOf(t) == SelectSeq(trace[t], LAMBDA x : x \in Stages)

IsPrefix(a, b) == Len(a) <= Len(b) /\ SubSeq(b, 1, Len(a)) = a

Before(a, b, s) ==
    \A j \in 1..Len(s) : s[j] = b => \E i \in 1..(j - 1) : s[i] = a

C11_PublishWhileActiveNoOp ==
    [][(JOB_RUNNING /\ job.pc # "idle" /\ job' = job) => store' = store]_vars


\* the SYSTEM DnsRecord tuples and the SYSTEM GatewayConnection tuples
SystemRecords(st) ==
    {[domain |-> r.domain, name |-> r.name, type |-> r.type,
      content |-> r.content, proxied |-> r.proxied] :
        r \in {x \in st.records : x.managed_by = "SYSTEM"}}

SystemConns(st) ==
    {[client |-> c.client, protocol |-> c.protocol,
      local_port |-> c.local_port, remote_port |-> c.remote_port] :
        c \in {x \in Range(st.conns) : x.managed_by = "SYSTEM"}}

\* C12: for a fixed configuration, two consecutive propagate_changes calls
\* leave the same set of SYSTEM record tuples and the same set of SYSTEM
\* connection tuples.
C12_PropagateDeterministic ==
    [][(eff.op = "propagate" /\ eff'.op = "propagate" /\ cfg' = cfg) =>
          /\ SystemRecords(store') = SystemRecords(store)
          /\ SystemConns(store') = SystemConns(store)]_vars


\* domain d holds a SYSTEM A record of that name and content
HasSystemRecord(d, name, ip) ==
    \E r \in store.records :
       /\ r.managed_by = "SYSTEM" /\ r.domain = d /\ r.name = name
       /\ r.type = "A" /\ r.content = ip

\* C13: after propagate_changes, every auto_wildcard domain D has, for every
\* origin IP, a SYSTEM "@" record iff D itself has a route with subdomain
\* "@", and a SYSTEM "*" record iff D itself has a non-root route.
C13_ApexWildcardGates ==
    eff.op = "propagate" =>
       \A i \in 1..Len(cfg.domains) :
          cfg.domains[i].auto_wildcard =>
             \A k \in 1..Len(origin_ips(cfg)) :
                LET d == cfg.domains[i].name
                    ip == origin_ips(cfg)[k]
                    own == {cfg.routes[j].subdomain : j \in
                              {x \in 1..Len(cfg.routes) : cfg.routes[x].domain = d}}
                IN /\ HasSystemRecord(d, "@", ip) <=> "@" \in own
                   /\ HasSystemRecord(d, "*", ip) <=> own \ {"@"} # {}


\* the labels _get_labels derives for domain d once the DNS sync has handed
\* the store's records on as remote entries
LabelsAfter(st, d) ==
    LET labels == get_labels({get_shared_record_from_db(r) : r \in st.records})
    IN IF d \in DOMAIN labels THEN labels[d] ELSE {}

\* the root label of d when d has routes, and the parent label of every
\* subdomain of d that lies below another label
NestedLabels(c, d) ==
    LET subs == {c.routes[j].subdomain : j \in
                   {x \in 1..Len(c.routes) : c.routes[x].domain = d}}
    IN (IF subs # {} THEN {d} ELSE {})
       \cup {after_first_dot(sub) \o "." \o d : sub \in {x \in subs : count_dots(x) > 0}}

\* C14: for an auto_wildcard domain with at least one origin, the Origin-CA
\* wanted label set derived from the propagated records is the root label
\* (when the domain has routes) plus every label that has a route nested
\* under it.
C14_WildcardLabels ==
    eff.op = "propagate" =>
       \A i \in 1..Len(cfg.domains) :
          (cfg.domains[i].auto_wildcard /\ origin_ips(cfg) # <<>>) =>
             LabelsAfter(store, cfg.domains[i].name) = NestedLabels(cfg, cfg.domains[i].name)


\* C15: after every CloudFlareManager.sync that completes without error the
\* archive table is empty, whether or not a row's tuple was at the provider
\* and whether or not its domain has a zone.
C15_ArchiveConsumed ==
    (eff.op = "dns" /\ eff.err = "") => store.archive = <<>>

\* a live sync without error that found an archive row of a domain without
\* a zone, so that no provider call was made for it
C15_Witness ==
    /\ eff.op = "dns" /\ ~eff.dry_run /\ eff.err = ""
    /\ eff.pre_store.archive # <<>>
    /\ zones = {}
    /\ eff.dns_calls = <<>>


\* the certificates the CA listed for label l before the Origin-CA sync
ListedBefore(l) == {c \in eff.pre_ca : c.label = l}

\* the Origin-CA sync asked the CA for a certificate for label l
CreatedFor(l) ==
    \E i \in 1..Len(eff.ca_calls) :
       eff.ca_calls[i].op = "create" /\ eff.ca_calls[i].label = l

\* C16: in a live Origin-CA sync a wanted label of a managed zone gets a new
\* certificate iff the CA lists no certificate for it, or the listed
\* certificate expires in less than CF_RENEW_SOON days, or fullchain.pem or
\* privkey.pem of the label is missing on disk; otherwise no certificate is
\* requested for it.
C16_RenewalDecision ==
    (eff.op = "ca" /\ ~eff.dry_run) =>
       \A d \in DOMAIN eff.wanted \cap zones : \A l \in eff.wanted[d] :
          LET listed == ListedBefore(l)
              missing == ~is_on_disk(eff.pre_disk, l)
          IN /\ CreatedFor(l) =>
                   \/ listed = {}
                   \/ \E c \in listed : c.days < CF_RENEW_SOON
                   \/ missing
             /\ (/\ eff.err = ""
                 /\ \/ listed = {}
                    \/ \A c \in listed : c.days < CF_RENEW_SOON
                    \/ missing) => CreatedFor(l)

\* a live sync renewed a certificate that was on disk and had one day less
\* than CF_RENEW_SOON left
C16_Witness ==
    /\ eff.op = "ca" /\ ~eff.dry_run /\ eff.err = ""
    /\ \E d \in DOMAIN eff.wanted \cap zones : \E l \in eff.wanted[d] :
          /\ ListedBefore(l) # {}
          /\ \A c \in ListedBefore(l) : c.days = CF_RENEW_SOON - 1
          /\ is_on_disk(eff.pre_disk, l)
          /\ CreatedFor(l)


\* the labels the Origin-CA sync wanted for zone z
WantedOf(z) == IF z \in DOMAIN eff.wanted THEN eff.wanted[z] ELSE {}

\* C17: after a live Origin-CA sync that completes without error, every
\* certificate the CA listed for a managed zone whose hostnames are not
\* wanted has been revoked, also in a zone without any wanted label, and no
\* file on disk has been deleted.
C17_UnwantedRevoked ==
    (eff.op = "ca" /\ ~eff.dry_run /\ eff.err = "") =>
       /\ \A z \in zones : \A c \in certs_of_zone(eff.pre_ca, z) :
             c.label \notin WantedOf(z) => c \notin ca
       /\ eff.pre_disk \subseteq disk


\* how often the ACME sync invoked certbot for domain d
CertbotRunsFor(d) ==
    Cardinality({i \in 1..Len(eff.certbot_calls) : eff.certbot_calls[i] = d})

\* C18: an ACME sync invokes certbot at most twice for a domain; the second
\* invocation comes only after the first one failed and the HTTP-only
\* configuration was written and reloaded; when the retry fails too the sync
\* raises and the publish run ends with a failure string as its result.
C18_RetryProtocol ==
    /\ eff.op = "le" =>
          /\ \A d \in Range(eff.certbot_calls) :
                /\ CertbotRunsFor(d) <= 2
                /\ CertbotRunsFor(d) = 2 =>
                      /\ eff.fallbacks # <<>>
                      /\ \A i \in 1..Len(eff.fallbacks) : eff.fallbacks[i].written
                      /\ eff.reloads >= 1
          /\ (\E i \in 1..Len(eff.fallbacks) : ~eff.fallbacks[i].success) =>
                /\ eff.err = "RuntimeError"
                /\ job.pc = "finish" /\ job.err = "RuntimeError"
    /\ (eff.op = "finish" /\ eff.err # "") =>
          JOB_RESULT = "Publish job failed: " \o eff.err

\* a publish run whose ACME sync retried with the HTTP-only configuration
\* and failed again
C18_Witness ==
    /\ eff.op = "le" /\ ~eff.dry_run
    /\ \E d \in Range(eff.certbot_calls) : CertbotRunsFor(d) = 2
    /\ \E i \in 1..Len(eff.fallbacks) : eff.fallbacks[i].written /\ ~eff.fallbacks[i].success
    /\ job.pc = "finish"


\* the active routes of the configuration that are not stream routes
HttpRoutes == SelectSeq(list_all_active(cfg), LAMBDA r : r.protocol # "STREAM")

\* the name of the server block of subdomain sub of domain d
ServerName(sub, d) == IF sub # "@" THEN sub \o "." \o d ELSE d

\* C19: the generated HTTP config holds exactly one HTTPS server block for
\* every (subdomain, domain) pair that has an active non-stream route, and
\* that block holds one location for every such route of the pair.
C19_RouteGrouping ==
    eff.op = "nginx" =>
       LET servers == eff.http_text.servers
           pairs == {<<HttpRoutes[i].subdomain, HttpRoutes[i].domain>> :
                       i \in 1..Len(HttpRoutes)}
       IN /\ Len(servers) = Cardinality(pairs)
          /\ \A p \in pairs :
                LET blocks == {i \in 1..Len(servers) :
                                 servers[i].server_name = ServerName(p[1], p[2])}
                    routes == {i \in 1..Len(HttpRoutes) :
                                 <<HttpRoutes[i].subdomain, HttpRoutes[i].domain>> = p}
                IN /\ Cardinality(blocks) = 1
                   /\ \A i \in blocks : Len(servers[i].locations) = Cardinality(routes)

\* two active routes of one subdomain with different path prefixes gave one
\* server block with two locations
C19_Witness ==
    /\ eff.op = "nginx"
    /\ Len(eff.http_text.servers) = 1
    /\ Len(eff.http_text.servers[1].locations) = 2
    /\ eff.http_text.servers[1].locations[1].path # eff.http_text.servers[1].locations[2].path


\* C20: when CloudflareIPCache.get has to fetch and the fetch fails, it
\* returns the ranges cached before if there are any, and a failed fetch
\* does not replace a non-empty cached value with an empty one.
C20_FetchFailureKeepsCache ==
    (eff.op = "ipget" /\ eff.failed) =>
       /\ eff.pre.obj.ipv4 # <<>> =>
             eff.ret[1] = eff.pre.obj.ipv4 /\ ipc.obj.ipv4 = eff.pre.obj.ipv4
       /\ eff.pre.obj.ipv6 # <<>> =>
             eff.ret[2] = eff.pre.obj.ipv6 /\ ipc.obj.ipv6 = eff.pre.obj.ipv6


\* C21: the DNS requests of the user (create, edit, delete) create, change
\* or remove only records whose managed_by is USER.
C21_OnlyUserRecordsEdited ==
    [][eff'.op = "request" =>
          /\ \A r \in store.records \ store'.records : r.managed_by = "USER"
          /\ \A r \in store'.records \ store.records : r.managed_by = "USER"]_vars


\* the SYSTEM connections of the client of that name
SystemConnsOf(name) ==
    SelectSeq(store.conns, LAMBDA c : c.managed_by = "SYSTEM" /\ c.client = name)

\* C22: after propagate_changes every origin client has exactly one SYSTEM
\* connection for each port of 80, 443 and the ports of the active stream
\* routes, local port equal to remote port, no two of them sharing a name or
\* a port, and a client that is no origin has no SYSTEM connection.
C22_SystemConnections ==
    eff.op = "propagate" =>
       \A k \in 1..Len(cfg.clients) :
          LET client == cfg.clients[k]
              conns == SystemConnsOf(client.name)
              ports == {80, 443} \cup
                       {stream_route_details(cfg)[i].port :
                          i \in 1..Len(stream_route_details(cfg))}
          IN IF client.is_origin
             THEN /\ {conns[i].local_port : i \in 1..Len(conns)} = ports
                  /\ \A i \in 1..Len(conns) : conns[i].local_port = conns[i].remote_port
                  /\ \A i, j \in 1..Len(conns) :
                        (conns[i].name = conns[j].name
                         \/ conns[i].local_port = conns[j].local_port) => i = j
             ELSE conns = <<>>


\* the provider holds the record's tuple
AtProvider(r) == SharedKey(get_shared_record_from_db(r)) \in {RemKey(e) : e \in remote}

C24_DesiredNotDeleted ==
    (eff.op = "dns" /\ ~eff.dry_run) => CallKeys("delete") \cap SyncL = {}


\* the direct records the configuration requires (common.py lines 232-264):
\* one per origin client and domain with use_for_direct_prefix, as the
\* provider would hold it
RequiredDirect ==
    {[domain |-> cfg.domains[i].name,
      name |-> cfg.clients[k].server \o ".direct." \o cfg.domains[i].name,
      type |-> "A", content |-> cfg.clients[k].host, proxied |-> FALSE] :
        i \in {j \in 1..Len(cfg.domains) : cfg.domains[j].use_for_direct_prefix},
        k \in {j \in 1..Len(cfg.clients) : cfg.clients[j].is_origin}}

\* C25: whatever requests call propagate_changes while a publish job runs,
\* with the configuration unchanged, the job's live DNS sync that ends
\* without error leaves every SYSTEM record the configuration requires at
\* the provider.
C25_RequiredSurvivesRace ==
    (job.pc # "idle" /\ LiveSyncDone /\ get_zone(zones, Dom) # "None") =>
       RequiredDirect \subseteq remote


\* the archive row belongs to the record's domain and has its name, type
\* and content (an archive row has no proxied to compare)
SameInDomain(row, rec) ==
    /\ row.domain = rec.domain /\ row.name = rec.name /\ row.type = rec.type
    /\ row.content = rec.content

\* the request before this sync was a create
SyncAfterCreate == eff.op = "dns" /\ "request" \in DOMAIN eff /\ eff.request.op = "create"

C29_ArchivedOnChange ==
    /\ eff.op = "delete" =>
          store.archive = Append(eff.pre_store.archive, from_dns_record(eff.old))
    /\ (eff.op = "edit" /\ eff.err = "") =>
          IF \/ eff.old.name # eff.new.name \/ eff.old.type # eff.new.type
             \/ eff.old.content # eff.new.content \/ eff.old.proxied # eff.new.proxied
          THEN store.archive = Append(eff.pre_store.archive, from_dns_record(eff.old))
          ELSE store.archive = eff.pre_store.archive


\* the record as the provider holds it
RemOf(r) ==
    [domain |-> r.domain, name |-> get_fqdn(r), type |-> r.type, content |-> r.content,
     proxied |-> r.proxied]

\* a live sync after an edit that changed nothing but proxied, started with
\* the old variant of the record at the provider and the record's zone there
ToggleThenSync ==
    /\ eff.op = "dns" /\ "request" \in DOMAIN eff
    /\ eff.request.op = "edit" /\ eff.request.err = ""
    /\ eff.request.new = [eff.request.old EXCEPT !.proxied = ~@]
    /\ eff.pre_remote = {RemOf(eff.request.old)}
    /\ get_zone(zones, eff.request.old.domain) # "None"

ImportedKeys(st) == {RemKey(RemOf(r)) : r \in {x \in st.records : x.managed_by = "IMPORTED"}}

ArchiveAtPurge == DnsRecordRepo_delete_all_managed_by(eff.pre_store, "IMPORTED").archive

\* a live sync that a provider call ended
SyncFailed == eff.op = "dns" /\ ~eff.dry_run /\ eff.err = "APIError"

\* C30: when a provider create or delete raises during a live sync, the
\* provider was changed by the calls made before it and by nothing else,
\* the job goes to its end with that error as its result, and the archive
\* keeps the row whose delete failed and every row after it, each row
\* before it having had its provider record deleted; the sync of the next
\* run that ends without error leaves no archive row, no provider record of
\* an archived tuple that is not a local one, and every local record at the
\* provider.
C30_FailureKeepsArchive ==
    /\ SyncFailed =>
          /\ remote = (eff.pre_remote \ {c.rec : c \in Range(CallsOf("delete"))})
                         \cup {c.rec : c \in Range(CallsOf("create"))}
          /\ job.pc = "finish" /\ job.err = eff.err
          /\ \E k \in 1..Len(ArchiveAtPurge) + 1 :
                /\ store.archive = SubSeq(ArchiveAtPurge, k, Len(ArchiveAtPurge))
                /\ \A i \in 1..(k - 1) :
                      LET key == SharedKey(get_shared_record_from_db(ArchiveAtPurge[i]))
                      IN (ArchiveAtPurge[i].managed_by # "IMPORTED" /\ key \in SyncR)
                            => key \in CallKeys("delete")
    /\ (eff.op = "finish" /\ eff.err # "") => JOB_RESULT = JOB_FAILED(eff.err)
    /\ (Len(runs) = 1 /\ runs[1].err = "APIError" /\ LiveSyncDone) =>
          /\ store.archive = <<>>
          /\ \A key \in SyncA \ SyncL : key \notin {RemKey(e) : e \in remote}
          /\ \A r \in store.records : r.managed_by # "IMPORTED" => AtProvider(r)

\* a sync that the provider's delete ended, with the row still archived and
\* its record still at the provider
C30_Witness ==
    /\ SyncFailed
    /\ store.archive # <<>>
    /\ SharedKey(get_shared_record_from_db(Head(store.archive))) \in {RemKey(e) : e \in remote}


\* the domain of the configuration a server block belongs to
DomainOfServer(server_name) ==
    CHOOSE d \in {cfg.domains[i].name : i \in 1..Len(cfg.domains)} :
       server_name = d \/ EndsWith(server_name, "." \o d)

\* C31: the certificate directory of every HTTPS server block the generator
\* emits is the one the active certificate manager writes to: with Origin-CA
\* certificates CF_SSL_DIR/<label>, the label being the server name without
\* its leading subdomain label, with ACME certificates the directory
\* get_certificate_path returns for the route's domain.
C31_CertPathsAgree ==
    eff.op = "nginx" =>
       \A i \in 1..Len(eff.http_text.servers) :
          LET srv == eff.http_text.servers[i]
              d == DomainOfServer(srv.server_name)
          IN IF settings.ENABLE_LETSENCRYPT
             THEN srv.ssl_certificate = get_certificate_path(d, srv.server_name)
             ELSE srv.ssl_certificate =
                     [dir |-> "CF_SSL_DIR",
                      name |-> IF srv.server_name = d THEN d
                               ELSE after_first_dot(srv.server_name)]


\* the active routes of domain d that ask for the wildcard record of that name
ActiveRoutesFor(d, name) ==
    {i \in 1..Len(cfg.routes) :
        /\ cfg.routes[i].active /\ cfg.routes[i].domain = d
        /\ DomainRepo_get(cfg, d).auto_wildcard
        /\ is_multilevel(cfg, cfg.routes[i])
        /\ name = "*." \o after_first_dot(cfg.routes[i].subdomain)}

CertsFor(cs, l) == {c \in cs : c.label = l}

\* C33: after a live Origin-CA sync that completes without error, started
\* with at most one certificate per pair of hostnames at the CA, the CA holds
\* at most one non-revoked certificate for every wanted pair {label,
\* *.label}: a renewal, or a reissue for files missing on disk, does not
\* leave the superseded certificate active.
C33_OneCertPerLabel ==
    (/\ eff.op = "ca" /\ ~eff.dry_run /\ eff.err = ""
     /\ \A c1, c2 \in eff.pre_ca : c1.label = c2.label => c1 = c2) =>
       \A z \in zones : \A l \in WantedOf(z) : Cardinality(CertsFor(ca, l)) <= 1


\* the server blocks of the stream file the generator rendered
StreamServers ==
    IF SelectSeq(list_all_active(cfg), LAMBDA r : r.protocol = "STREAM") = <<>> THEN <<>>
    ELSE eff.stream_text

\* the upstream blocks the generator rendered, HTTP and stream
RenderedUpstreams ==
    UNION {Range(eff.http_text.servers[i].upstreams) : i \in 1..Len(eff.http_text.servers)}
       \cup {StreamServers[i].upstream : i \in 1..Len(StreamServers)}

\* C34: every upstream block the generator renders, in the HTTP file and in
\* the stream file, lists at least one server: an active HTTP or HTTPS route
\* whose hosts are all inactive or absent yields no upstream block.
C34_UpstreamHasServer ==
    eff.op = "nginx" => \A u \in RenderedUpstreams : Len(u.servers) >= 1


\* the Host rows of the configuration that are switched off
InactiveHosts ==
    UNION {{h \in Range(cfg.routes[i].hosts) : ~h.active} : i \in 1..Len(cfg.routes)}

\* the location blocks of the HTTP file the generator rendered, with the
\* server name of their block
RenderedLocations ==
    UNION {{[server_name |-> eff.http_text.servers[i].server_name, loc |-> l] :
               l \in Range(eff.http_text.servers[i].locations)} :
           i \in 1..Len(eff.http_text.servers)}

\* the path of the location block of a route
LocationPath(r) ==
    IF StartsWith(r.path_prefix, "/") THEN r.path_prefix ELSE "/" \o r.path_prefix

\* C35: the rendered configuration depends only on active rows: no inactive
\* Host is a server of an upstream block or the proxy_pass target of a
\* REDIRECT location, and every location block and every stream server block
\* comes from an active Route.
C35_ActiveRowsOnly ==
    eff.op = "nginx" =>
       /\ \A u \in RenderedUpstreams : \A h \in InactiveHosts :
             h.host \notin Range(u.servers)
       /\ \A x \in RenderedLocations : \A h \in InactiveHosts :
             x.loc.proxy_pass # host_repr(h)
       /\ \A x \in RenderedLocations :
             \E r \in Range(list_all_active(cfg)) :
                /\ r.protocol # "STREAM"
                /\ x.server_name = (IF r.subdomain # "@" THEN r.subdomain \o "." \o r.domain
                                      ELSE r.domain)
                /\ x.loc.path = LocationPath(r)
       /\ \A i \in 1..Len(StreamServers) :
             \E r \in Range(list_all_active(cfg)) :
                r.protocol = "STREAM" /\ stream_port(r.path_prefix) = StreamServers[i].listen


\* the domains of the ACME sync that have a name certbot can validate
LeManaged ==
    {x.domain : x \in {y \in Range(get_domains_to_manage(cfg)) :
                          \E n \in y.subdomains : ~StartsWith(n, "*")}}

\* C36: in a live ACME sync a domain whose certificate exists and is
\* readable gets certbot invoked iff the certificate has less than
\* LE_RENEW_SOON days left; with LE_RENEW_SOON days or more (30 days and
\* 12 hours, whose whole days are 30) certbot is not invoked for it.
C36_RenewalThreshold ==
    (eff.op = "le" /\ ~eff.dry_run) =>
       \A c \in eff.pre_le :
          /\ c.domain \in Range(eff.certbot_calls) => c.days < LE_RENEW_SOON
          /\ (c.days < LE_RENEW_SOON /\ eff.err = "" /\ c.domain \in LeManaged)
                => c.domain \in Range(eff.certbot_calls)


\* C37: after a live ACME sync that completes without error, every domain
\* with active routes has a certificate that covers every wanted name that
\* is no wildcard; an active route of a new subdomain gets its name issued
\* also when the existing certificate is outside the renewal window.
C37_AcmeCoverage ==
    (eff.op = "le" /\ ~eff.dry_run /\ eff.err = "") =>
       \A x \in Range(get_domains_to_manage(cfg)) :
          \A n \in x.subdomains :
             ~StartsWith(n, "*") => \E c \in le : c.domain = x.domain /\ n \in c.names


\* a publish run is active: some invocation is inside the pipeline body
RunActive == \E t \in Threads : InBody(t)

\* C38: the result slot.  A call of get_job_result while a run is active
\* returns nothing and leaves JOB_RESULT as it is; a call while no run is
\* active returns what the slot holds and clears it, so that the first call
\* after a run gets that run's result and every later call gets nothing
\* until another run has finished.
C38_ResultSlot ==
    [][(pc' = pc) =>
          /\ RunActive => (polled' = None /\ JOB_RESULT' = JOB_RESULT)
          /\ ~RunActive => (polled' = JOB_RESULT /\ JOB_RESULT' = None)]_vars


\* a live sync after edit_domain deleted a domain that had DNS records
SyncAfterDomainDelete ==
    /\ eff.op = "dns" /\ "request" \in DOMAIN eff
    /\ eff.request.op = "delete_domain" /\ eff.request.deleted
    /\ \E r \in eff.request.pre_store.records : r.domain = eff.request.domain

\* C39: after edit_domain deleted a domain that had DNS records, archiving
\* them, a sync in which no provider call fails completes without error and
\* leaves no archive row of that domain.
C39_DomainDeleteKeepsSync ==
    (SyncAfterDomainDelete /\ eff.err # "APIError") =>
       /\ eff.err = ""
       /\ \A i \in 1..Len(store.archive) : store.archive[i].domain # eff.request.domain


\* the addresses of family rtype the wildcard of label l points at
WildAddrs(l, rtype) ==
    {r.content : r \in {x \in remote : x.name = wildcard_fqdn(l, Dom) /\ x.type = rtype}}

\* the labels sync_wildcards wanted
WantLabels == first_labels_requiring_wildcard(eff.proxy_map)

\* C40: after sync_wildcards(proxy_map, origin_ips) has completed without
\* error, the wildcard of every wanted label has A records for exactly the
\* IPv4 addresses of origin_ips and AAAA records for exactly its IPv6
\* addresses, also when origin_ips has no IPv6 address, and no wildcard
\* record of a label that is not wanted is left.
C40_WildcardsExact ==
    (eff.op = "wildcards" /\ eff.err = "") =>
       /\ \A l \in WantLabels :
             /\ WildAddrs(l, "A") = {ip \in Range(eff.origin_ips) : ip_version(ip) = 4}
             /\ WildAddrs(l, "AAAA") = {ip \in Range(eff.origin_ips) : ip_version(ip) = 6}
       /\ \A r \in remote :
             label_of_record(r, Dom) # NoLabel => label_of_record(r, Dom) \in WantLabels

====
